---- MODULE Spec2Model ----
(***************************************************************************)
(* Frame update of the Lixtricks first-person prototype (the Player/World  *)
(* variant: src/unnamed/part_001, lines 575-1221).                         *)
(*                                                                         *)
(* Fixed-point units.  The program computes in float; the model computes   *)
(* in integers with                                                        *)
(*   length            1 = 0.01 m   (cm)                                   *)
(*   time              1 = 0.1 s    (ds)                                   *)
(*   horizontal speed  1 = 1 cm/ds  (= 0.1 m/s)                            *)
(*   velocityY         1 = 1 mm/s   (so gravity*dt is exact)               *)
(*   unit directions   in fifths    (a direction d is stored as 5*d)       *)
(* Every constant of the program is a whole number of these units.         *)
(***************************************************************************)
EXTENDS Integers, Sequences, FiniteSets, TLC

VARIABLES
    player,      \* the Player aggregate
    world,       \* the World aggregate: projectiles, enemies, enemySpawnTimer
    isGameOver,  \* the game-over flag
    in,          \* the inputs the host supplied to the last GameUpdate call
    before,      \* the Player aggregate as the last GameUpdate call found it
    pass,        \* world.projectiles / world.enemies as the projectile pass of
                 \* the last active frame left them, before the erase calls
    frame,       \* the number of GameUpdate calls the host loop has made
    probe        \* the last call of a geometry query made on its own, with
                 \* its arguments and results

vars == <<player, world, isGameOver, in, before, pass, frame, probe>>

-----------------------------------------------------------------------------
(* Program constants, in model units *)

gravity            == 981     \* 9.81 m/s^2 = 981 mm/s per ds
jumpVelocity       == 5000    \* 5.0 m/s in mm/s
maxSprintTime      == 100     \* 10.0 s
maxJumpCount       == 2
projectileSpeed    == 1000    \* 100 m/s = 1000 cm/ds
projectileRadius   == 1       \* 0.01 m
projectileLifetime == 20      \* 2.0 s
enemyFlashDuration == 1       \* 0.1 s
enemyRadius        == 50      \* 0.5 m
enemySpawnInterval == 20      \* 2.0 s
enemyMaxCount      == 10
enemyHealth        == 100     \* health an enemy is created with
projectileDamage   == 25      \* health a projectile hit takes from an enemy
enemySpeed         == 25      \* 2.5 m/s = 25 cm/ds
damageInterval     == 20      \* 2.0 s
damageAmount       == 25
playerHealth       == 100     \* health of a fresh session
spawnOffset        == 60      \* 0.6 m
tolerance          == 5       \* 0.05 m
noPlatform         == -100    \* isOnPlatform's "no ground" result, -1.0
distEpsilon        == 1       \* 0.01 m
UnitDir            == 5       \* a unit direction component, in fifths
VelScale           == 100     \* (mm/s * ds) per cm

-----------------------------------------------------------------------------
(* Vectors *)

Vec(a, b, c) == [x |-> a, y |-> b, z |-> c]

Abs(a) == IF a < 0 THEN -a ELSE a

Min(a, b) == IF a < b THEN a ELSE b

Max(a, b) == IF a > b THEN a ELSE b

\* std::clamp(v, lo, hi)
Clamp(v, lo, hi) == IF v < lo THEN lo ELSE IF v > hi THEN hi ELSE v

\* a / b rounded toward zero (b > 0)
Quot(a, b) == IF a >= 0 THEN a \div b ELSE -((-a) \div b)

\* integer square root: the greatest r with r*r <= n
RECURSIVE SqrtBetween(_, _, _)
SqrtBetween(n, lo, hi) ==
    IF lo >= hi THEN lo
    ELSE LET mid == (lo + hi + 1) \div 2
         IN  IF mid * mid <= n THEN SqrtBetween(n, mid, hi)
             ELSE SqrtBetween(n, lo, mid - 1)

ISqrt(n) == SqrtBetween(n, 0, 46340)

-----------------------------------------------------------------------------
(* The static world *)

platforms ==
    << [position |-> Vec(0, 0, 0),      size |-> Vec(5000, 100, 5000)],
       [position |-> Vec(0, 150, 1000), size |-> Vec(200, 200, 200)] >>

playerRadius == 50   \* player.radius, 0.5 m

enemySize == Vec(100, 200, 100)

-----------------------------------------------------------------------------
(* Utility / Collision *)

GetPlatformTopY(p) == p.position.y + p.size.y \div 2

SphereVsAABB(spherePos, r, boxPos, boxSize) ==
    LET hx == boxSize.x \div 2
        hy == boxSize.y \div 2
        hz == boxSize.z \div 2
        cx == Clamp(spherePos.x, boxPos.x - hx, boxPos.x + hx)
        cy == Clamp(spherePos.y, boxPos.y - hy, boxPos.y + hy)
        cz == Clamp(spherePos.z, boxPos.z - hz, boxPos.z + hz)
        dx == spherePos.x - cx
        dy == spherePos.y - cy
        dz == spherePos.z - cz
    IN  /\ Abs(dx) <= r /\ Abs(dy) <= r /\ Abs(dz) <= r
        /\ dx * dx + dy * dy + dz * dz <= r * r

GetExpandedPlatformBounds(p) ==
    LET hx == p.size.x \div 2 + playerRadius
        hy == p.size.y \div 2 + playerRadius
        hz == p.size.z \div 2 + playerRadius
    IN  [minX |-> p.position.x - hx, maxX |-> p.position.x + hx,
         minY |-> p.position.y - hy, maxY |-> p.position.y + hy,
         minZ |-> p.position.z - hz, maxZ |-> p.position.z + hz]

\* variant of CollidingPlatformK: a point on a face counts as inside
CollidingPlatformKClosed(pos, k) ==
    LET b == GetExpandedPlatformBounds(platforms[k])
    IN  /\ pos.x >= b.minX /\ pos.x <= b.maxX
        /\ pos.y >= b.minY /\ pos.y <= b.maxY
        /\ pos.z >= b.minZ /\ pos.z <= b.maxZ

\* the test of the loop of isCollidingPlatform, for platform k
CollidingPlatformK(pos, k) ==
    LET b == GetExpandedPlatformBounds(platforms[k])
    IN  /\ pos.x > b.minX /\ pos.x < b.maxX
        /\ pos.y > b.minY /\ pos.y < b.maxY
        /\ pos.z > b.minZ /\ pos.z < b.maxZ

isCollidingPlatform(pos) ==
    \E k \in 1..Len(platforms) : CollidingPlatformK(pos, k)

\* variant of OnPlatformK: the feet must be above the top
OnPlatformKAbove(pos, k) ==
    LET b     == GetExpandedPlatformBounds(platforms[k])
        topY  == GetPlatformTopY(platforms[k])
        feetY == pos.y - playerRadius
    IN  /\ pos.x > b.minX /\ pos.x < b.maxX
        /\ pos.z > b.minZ /\ pos.z < b.maxZ
        /\ feetY > topY /\ feetY <= topY + tolerance

\* whether platform k carries a player whose centre is at pos
OnPlatformK(pos, k) ==
    LET b     == GetExpandedPlatformBounds(platforms[k])
        topY  == GetPlatformTopY(platforms[k])
        feetY == pos.y - playerRadius
    IN  /\ pos.x > b.minX /\ pos.x < b.maxX
        /\ pos.z > b.minZ /\ pos.z < b.maxZ
        /\ feetY >= topY - tolerance /\ feetY <= topY + tolerance

\* the rest height on the first platform (in order) that carries pos, else -1.0
isOnPlatform(pos) ==
    LET carrying == {k \in 1..Len(platforms) : OnPlatformK(pos, k)}
    IN  IF carrying = {} THEN noPlatform
        ELSE LET k == CHOOSE j \in carrying : \A m \in carrying : j <= m
             IN  GetPlatformTopY(platforms[k]) + playerRadius

\* variant of EnemyCollidesPlatform: the floor is tested too
EnemyCollidesPlatformAll(pos, radius) ==
    \E k \in 1..Len(platforms) :
        SphereVsAABB(pos, radius, platforms[k].position, platforms[k].size)

\* the floor, platforms[1], is skipped
EnemyCollidesPlatform(pos, radius) ==
    \E k \in 2..Len(platforms) :
        SphereVsAABB(pos, radius, platforms[k].position, platforms[k].size)

(* Slab method.  The interpolation parameters are kept as exact fractions  *)
(* <<numerator, denominator>> with a positive denominator.                 *)
FracLeq(a, b) == a[1] * b[2] <= b[1] * a[2]

FracMax(a, b) == IF FracLeq(a, b) THEN b ELSE a

FracMin(a, b) == IF FracLeq(a, b) THEN a ELSE b

Frac(n, d) == IF d < 0 THEN <<-n, -d>> ELSE <<n, d>>

\* variant of SweptAxis: t1 and t2 are not swapped
SweptAxisUnordered(t, s, d, mn, mx) ==
    IF ~t.ok THEN t
    ELSE IF d = 0
         THEN [t EXCEPT !.ok = ~(s < mn \/ s > mx)]
         ELSE LET t1   == Frac(mn - s, d)
                  t2   == Frac(mx - s, d)
                  tmin == FracMax(t.tmin, t1)
                  tmax == FracMin(t.tmax, t2)
              IN  [ok |-> FracLeq(tmin, tmax), tmin |-> tmin, tmax |-> tmax]

\* one iteration of the axis loop on the running interval t = [ok, tmin, tmax]
SweptAxis(t, s, d, mn, mx) ==
    IF ~t.ok THEN t
    ELSE IF d = 0
         THEN [t EXCEPT !.ok = ~(s < mn \/ s > mx)]
         ELSE LET a    == Frac(mn - s, d)
                  b    == Frac(mx - s, d)
                  t1   == FracMin(a, b)
                  t2   == FracMax(a, b)
                  tmin == FracMax(t.tmin, t1)
                  tmax == FracMin(t.tmax, t2)
              IN  [ok |-> FracLeq(tmin, tmax), tmin |-> tmin, tmax |-> tmax]

\* variant of SweptInterval: the box is not inflated by the radius
SweptIntervalThin(start, end, radius, boxPos, boxSize) ==
    LET hx == boxSize.x \div 2
        hy == boxSize.y \div 2
        hz == boxSize.z \div 2
        t0 == [ok |-> TRUE, tmin |-> <<0, 1>>, tmax |-> <<1, 1>>]
        t1 == SweptAxis(t0, start.x, end.x - start.x, boxPos.x - hx, boxPos.x + hx)
        t2 == SweptAxis(t1, start.y, end.y - start.y, boxPos.y - hy, boxPos.y + hy)
    IN  SweptAxis(t2, start.z, end.z - start.z, boxPos.z - hz, boxPos.z + hz)

\* the axis loop: the interval [ok, tmin, tmax] it ends with
SweptInterval(start, end, radius, boxPos, boxSize) ==
    LET hx == boxSize.x \div 2 + radius
        hy == boxSize.y \div 2 + radius
        hz == boxSize.z \div 2 + radius
        t0 == [ok |-> TRUE, tmin |-> <<0, 1>>, tmax |-> <<1, 1>>]
        t1 == SweptAxis(t0, start.x, end.x - start.x, boxPos.x - hx, boxPos.x + hx)
        t2 == SweptAxis(t1, start.y, end.y - start.y, boxPos.y - hy, boxPos.y + hy)
    IN  SweptAxis(t2, start.z, end.z - start.z, boxPos.z - hz, boxPos.z + hz)

SweptSphereVsAABB(start, end, radius, boxPos, boxSize) ==
    SweptInterval(start, end, radius, boxPos, boxSize).ok

-----------------------------------------------------------------------------
(* Player: the fields the program never writes are constants here *)

walkSpeed     == 50    \* 5.0 m/s
runSpeed      == 100   \* 10.0 m/s
slideSpeed    == 160   \* 16.0 m/s
crouchSpeed   == 25    \* 2.5 m/s
slideDuration == 5     \* 0.5 s
pitchLimit    == 2     \* the pitch clamp, in pitch levels (see Forward)

\* the static initializer of `player`
PlayerStatic ==
    [position        |-> Vec(0, 0, 0),
     speed           |-> walkSpeed,
     slideTimer      |-> 0,
     isSliding       |-> FALSE,
     sprintTimer     |-> 0,
     sprintExhausted |-> FALSE,
     prevCrouching   |-> FALSE,
     airborneSpeed   |-> 0,
     jumpCount       |-> 0,
     wasOnGround     |-> FALSE,
     slideQueued     |-> FALSE,
     cameraYaw       |-> 0,
     cameraPitch     |-> 0,
     velocityY       |-> 0,
     health          |-> playerHealth,
     enemiesDefeated |-> 0,
     shotsFired      |-> 0,
     shotsHit        |-> 0,
     survivalTime    |-> 0]

\* the static initializer of `world` (platforms are the constant above; the
\* camera is a pure function of player.position and Forward, so it is not kept)
WorldStatic ==
    [projectiles |-> <<>>, enemies |-> <<>>, enemySpawnTimer |-> 0]

(* Look direction.  cameraYaw is kept in quarter turns (mod 4) and         *)
(* cameraPitch in five levels -2..2: asin(-1), asin(-3/5), 0, asin(3/5),   *)
(* asin(1); the outermost levels stand for the +-89 degree clamp, whose    *)
(* direction is vertical to the precision of a fifth.                      *)
sinYaw(yaw) == CASE yaw = 0 -> 0 [] yaw = 1 -> 1 [] yaw = 2 -> 0 [] OTHER -> -1

cosYaw(yaw) == CASE yaw = 0 -> 1 [] yaw = 1 -> 0 [] yaw = 2 -> -1 [] OTHER -> 0

sinPitch(pitch) ==
    CASE pitch = -2 -> -5 [] pitch = -1 -> -3 [] pitch = 0 -> 0
      [] pitch = 1 -> 3 [] OTHER -> 5

cosPitch(pitch) ==
    CASE pitch = -2 -> 0 [] pitch = -1 -> 4 [] pitch = 0 -> 5
      [] pitch = 1 -> 4 [] OTHER -> 0

\* forward = {cosPitch*sinYaw, sinPitch, cosPitch*cosYaw}, in fifths
Forward(p) ==
    Vec(cosPitch(p.cameraPitch) * sinYaw(p.cameraYaw),
        sinPitch(p.cameraPitch),
        cosPitch(p.cameraPitch) * cosYaw(p.cameraYaw))

\* left = {cosYaw, 0, -sinYaw}, in fifths
Left(p) == Vec(UnitDir * cosYaw(p.cameraYaw), 0, -UnitDir * sinYaw(p.cameraYaw))

-----------------------------------------------------------------------------
(* Lifecycle *)

\* variant of GameInit: health is not restored
GameInitWounded(s) ==
    [s EXCEPT
        !.player.position        = Vec(platforms[1].position.x,
                                       GetPlatformTopY(platforms[1]) + playerRadius,
                                       platforms[1].position.z),
        !.player.cameraYaw       = 0,
        !.player.cameraPitch     = 0,
        !.world.enemies          = <<>>,
        !.world.projectiles      = <<>>,
        !.world.enemySpawnTimer  = 0,
        !.player.enemiesDefeated = 0,
        !.player.shotsFired      = 0,
        !.player.shotsHit        = 0,
        !.player.survivalTime    = 0,
        !.isGameOver             = FALSE]

\* GameInit on a state s with the fields player, world and isGameOver: what it
\* assigns, and nothing else
GameInit(s) ==
    [s EXCEPT
        !.player.position        = Vec(platforms[1].position.x,
                                       GetPlatformTopY(platforms[1]) + playerRadius,
                                       platforms[1].position.z),
        !.player.cameraYaw       = 0,
        !.player.cameraPitch     = 0,
        !.world.enemies          = <<>>,
        !.world.projectiles      = <<>>,
        !.world.enemySpawnTimer  = 0,
        !.player.health          = playerHealth,
        !.player.enemiesDefeated = 0,
        !.player.shotsFired      = 0,
        !.player.shotsHit        = 0,
        !.player.survivalTime    = 0,
        !.isGameOver             = FALSE]

-----------------------------------------------------------------------------
(* Enemy spawning.  rnd = <<x, z>> are the two getRandomFloat results.  An  *)
(* enemy carries three history fields the program does not have: damages,   *)
(* how often it has damaged the player (counted up to 2); sinceDamage, the  *)
(* frame time accumulated since it last did (counted up to damageInterval); *)
(* and lastGap, that time as it was when it did so again.                   *)

\* variant of spawnEnemy: no cap
spawnEnemyUncapped(w, rnd) ==
    [w EXCEPT !.enemies = Append(@,
        [position       |-> Vec(rnd[1],
                                GetPlatformTopY(platforms[1]) + enemyRadius,
                                rnd[2]),
         health         |-> enemyHealth,
         flashTimer     |-> 0,
         damageCooldown |-> 0,
         damages        |-> 0,
         sinceDamage    |-> 0,
         lastGap        |-> 0])]

spawnEnemy(w, rnd) ==
    IF Len(w.enemies) >= enemyMaxCount THEN w
    ELSE [w EXCEPT !.enemies = Append(@,
            [position       |-> Vec(rnd[1],
                                    GetPlatformTopY(platforms[1]) + enemyRadius,
                                    rnd[2]),
             health         |-> enemyHealth,
             flashTimer     |-> 0,
             damageCooldown |-> 0,
             damages        |-> 0,
             sinceDamage    |-> 0,
             lastGap        |-> 0])]

\* whether rnd = <<x, z>> lies in the ranges getRandomFloat is asked for
InSpawnRange(rnd) ==
    LET floor == platforms[1]
    IN  /\ rnd[1] >= floor.position.x - floor.size.x \div 2 + enemyRadius
        /\ rnd[1] <= floor.position.x + floor.size.x \div 2 - enemyRadius
        /\ rnd[2] >= floor.position.z - floor.size.z \div 2 + enemyRadius
        /\ rnd[2] <= floor.position.z + floor.size.z \div 2 - enemyRadius

\* variant of SpawnTick: the timer is reset only if an enemy was created
SpawnTickLazy(w, dt, rnd) ==
    LET timer == w.enemySpawnTimer + dt
    IN  IF timer >= enemySpawnInterval /\ Len(w.enemies) < enemyMaxCount
        THEN [spawnEnemy(w, rnd) EXCEPT !.enemySpawnTimer = 0]
        ELSE [w EXCEPT !.enemySpawnTimer = timer]

\* the spawn timer step at the head of an active frame
SpawnTick(w, dt, rnd) ==
    LET timer == w.enemySpawnTimer + dt
    IN  IF timer >= enemySpawnInterval
        THEN [spawnEnemy(w, rnd) EXCEPT !.enemySpawnTimer = 0]
        ELSE [w EXCEPT !.enemySpawnTimer = timer]

-----------------------------------------------------------------------------
(* Frame update: player locomotion.  i is the input record of the frame:    *)
(* dt (GetFrameTime), W S A D shift c (IsKeyDown), space (IsKeyPressed),     *)
(* fire (IsMouseButtonPressed), mdx mdy (GetMouseDelta, in look steps),      *)
(* rnd (the random source).                                                  *)

\* mouse look, with the pitch clamp
MouseLook(p, i) ==
    [p EXCEPT !.cameraYaw   = (@ - i.mdx) % 4,
              !.cameraPitch = Clamp(@ - i.mdy, -pitchLimit, pitchLimit)]

\* variant of tryMove: the Z-only displacement is tried from the position
\* the call started with
tryMoveIndependent(nextPos, dir, scale) ==
    LET dx        == Quot(dir.x * scale, UnitDir)
        dz        == Quot(dir.z * scale, UnitDir)
        candidate == [nextPos EXCEPT !.x = @ + dx, !.z = @ + dz]
        slideX    == [nextPos EXCEPT !.x = @ + dx]
        slideZ    == [nextPos EXCEPT !.z = @ + dz]
    IN  IF ~isCollidingPlatform(candidate) THEN candidate
        ELSE [nextPos EXCEPT
                 !.x = IF ~isCollidingPlatform(slideX) THEN slideX.x ELSE @,
                 !.z = IF ~isCollidingPlatform(slideZ) THEN slideZ.z ELSE @]

\* variant of tryMove: the X-only displacement is accepted untested
tryMoveUntested(nextPos, dir, scale) ==
    LET dx        == Quot(dir.x * scale, UnitDir)
        dz        == Quot(dir.z * scale, UnitDir)
        candidate == [nextPos EXCEPT !.x = @ + dx, !.z = @ + dz]
        slideX    == [nextPos EXCEPT !.x = @ + dx]
        slideZ    == [slideX EXCEPT !.z = @ + dz]
    IN  IF ~isCollidingPlatform(candidate) THEN candidate
        ELSE IF ~isCollidingPlatform(slideZ) THEN slideZ
        ELSE slideX

\* the tryMove closure: nextPos after one directional input
tryMove(nextPos, dir, scale) ==
    LET dx        == Quot(dir.x * scale, UnitDir)
        dz        == Quot(dir.z * scale, UnitDir)
        candidate == [nextPos EXCEPT !.x = @ + dx, !.z = @ + dz]
        slideX    == [nextPos EXCEPT !.x = @ + dx]
        afterX    == IF ~isCollidingPlatform(slideX) THEN slideX ELSE nextPos
        slideZ    == [afterX EXCEPT !.z = @ + dz]
    IN  IF ~isCollidingPlatform(candidate) THEN candidate
        ELSE IF ~isCollidingPlatform(slideZ) THEN slideZ
        ELSE afterX

\* `if (IsKeyDown(key)) tryMove(dir, scale)`
KeyMove(down, nextPos, dir, scale) ==
    IF down THEN tryMove(nextPos, dir, scale) ELSE nextPos

\* the four directional inputs, in the order W S D A
Movement(p, i, forward, left) ==
    LET cameraSpeed == p.speed * i.dt
        afterW == KeyMove(i.W, p.position, forward, cameraSpeed)
        afterS == KeyMove(i.S, afterW, forward, -cameraSpeed)
        afterD == KeyMove(i.D, afterS, left, -cameraSpeed)
    IN  KeyMove(i.A, afterD, left, cameraSpeed)

\* variant of Landing: the test of wasOnGround is inverted
LandingInverted(p, onGround) ==
    IF onGround /\ p.wasOnGround THEN [p EXCEPT !.jumpCount = 0] ELSE p

\* landing resets the jump budget
Landing(p, onGround) ==
    IF onGround /\ ~p.wasOnGround THEN [p EXCEPT !.jumpCount = 0] ELSE p

\* variant of SelectSpeed: the speed is selected in the air too
SelectSpeedAnywhere(p, i, onGround) ==
    LET speed ==
            IF p.isSliding THEN slideSpeed
            ELSE IF i.shift /\ ~i.c /\ ~p.sprintExhausted THEN runSpeed
            ELSE IF i.c THEN crouchSpeed
            ELSE walkSpeed
    IN  [p EXCEPT !.speed = speed, !.airborneSpeed = speed]

\* variant of SelectSpeed: exhaustion does not stop running
SelectSpeedTireless(p, i, onGround) ==
    IF onGround
    THEN LET speed ==
                 IF p.isSliding THEN slideSpeed
                 ELSE IF i.shift /\ ~i.c THEN runSpeed
                 ELSE IF i.c THEN crouchSpeed
                 ELSE walkSpeed
         IN  [p EXCEPT !.speed = speed, !.airborneSpeed = speed]
    ELSE [p EXCEPT !.speed = p.airborneSpeed]

\* movement mode -> speed
SelectSpeed(p, i, onGround) ==
    IF onGround
    THEN LET speed ==
                 IF p.isSliding THEN slideSpeed
                 ELSE IF i.shift /\ ~i.c /\ ~p.sprintExhausted THEN runSpeed
                 ELSE IF i.c THEN crouchSpeed
                 ELSE walkSpeed
         IN  [p EXCEPT !.speed = speed, !.airborneSpeed = speed]
    ELSE [p EXCEPT !.speed = p.airborneSpeed]

\* variant of Vertical: gravity acts on the ground too
VerticalHeavy(p, i, onGround, platformY) ==
    LET snapped == IF onGround /\ p.velocityY < 0
                   THEN [p EXCEPT !.position.y = platformY, !.velocityY = 0]
                   ELSE p
        jumped  == IF i.space /\ (onGround \/ snapped.jumpCount < maxJumpCount)
                   THEN [snapped EXCEPT !.velocityY = jumpVelocity,
                                        !.jumpCount = @ + 1]
                   ELSE snapped
        fallen  == [jumped EXCEPT !.velocityY = @ - gravity * i.dt]
    IN  [fallen EXCEPT !.position.y = @ + Quot(fallen.velocityY * i.dt, VelScale)]

\* ground snap, jump, gravity and vertical integration; p.position is nextPos
Vertical(p, i, onGround, platformY) ==
    LET snapped == IF onGround /\ p.velocityY < 0
                   THEN [p EXCEPT !.position.y = platformY, !.velocityY = 0]
                   ELSE p
        jumped  == IF i.space /\ (onGround \/ snapped.jumpCount < maxJumpCount)
                   THEN [snapped EXCEPT !.velocityY = jumpVelocity,
                                        !.jumpCount = @ + 1]
                   ELSE snapped
        fallen  == IF ~onGround
                   THEN [jumped EXCEPT !.velocityY = @ - gravity * i.dt]
                   ELSE jumped
    IN  [fallen EXCEPT !.position.y = @ + Quot(fallen.velocityY * i.dt, VelScale)]

\* variant of Sliding: the start does not set the timer
SlidingUntimed(p, i, onGround) ==
    LET crouchPressed == i.c /\ ~p.prevCrouching
        started == IF i.shift /\ crouchPressed /\ ~p.isSliding /\ onGround
                      /\ ~p.slideQueued
                   THEN [p EXCEPT !.isSliding = TRUE,
                                  !.slideQueued = TRUE]
                   ELSE p
        updated == IF started.isSliding
                   THEN [started EXCEPT
                            !.slideTimer = @ - i.dt,
                            !.isSliding  = ~(started.slideTimer - i.dt <= 0)]
                   ELSE started
    IN  IF ~i.c THEN [updated EXCEPT !.slideQueued = FALSE] ELSE updated

\* variant of Sliding: the queue is also released when the slide is over
SlidingUnqueued(p, i, onGround) ==
    LET crouchPressed == i.c /\ ~p.prevCrouching
        started == IF i.shift /\ crouchPressed /\ ~p.isSliding /\ onGround
                      /\ ~p.slideQueued
                   THEN [p EXCEPT !.isSliding = TRUE,
                                  !.slideTimer = slideDuration,
                                  !.slideQueued = TRUE]
                   ELSE p
        updated == IF started.isSliding
                   THEN [started EXCEPT
                            !.slideTimer = @ - i.dt,
                            !.isSliding  = ~(started.slideTimer - i.dt <= 0)]
                   ELSE started
    IN  IF ~i.c \/ ~updated.isSliding
        THEN [updated EXCEPT !.slideQueued = FALSE]
        ELSE updated

\* variant of Sliding: the timer runs on the ground only
SlidingGrounded(p, i, onGround) ==
    LET crouchPressed == i.c /\ ~p.prevCrouching
        started == IF i.shift /\ crouchPressed /\ ~p.isSliding /\ onGround
                      /\ ~p.slideQueued
                   THEN [p EXCEPT !.isSliding = TRUE,
                                  !.slideTimer = slideDuration,
                                  !.slideQueued = TRUE]
                   ELSE p
        updated == IF started.isSliding /\ onGround
                   THEN [started EXCEPT
                            !.slideTimer = @ - i.dt,
                            !.isSliding  = ~(started.slideTimer - i.dt <= 0)]
                   ELSE started
    IN  IF ~i.c THEN [updated EXCEPT !.slideQueued = FALSE] ELSE updated

\* sliding start, sliding update, release of the queue
Sliding(p, i, onGround) ==
    LET crouchPressed == i.c /\ ~p.prevCrouching
        started == IF i.shift /\ crouchPressed /\ ~p.isSliding /\ onGround
                      /\ ~p.slideQueued
                   THEN [p EXCEPT !.isSliding = TRUE,
                                  !.slideTimer = slideDuration,
                                  !.slideQueued = TRUE]
                   ELSE p
        updated == IF started.isSliding
                   THEN [started EXCEPT
                            !.slideTimer = @ - i.dt,
                            !.isSliding  = ~(started.slideTimer - i.dt <= 0)]
                   ELSE started
    IN  IF ~i.c THEN [updated EXCEPT !.slideQueued = FALSE] ELSE updated

\* variant of Sprint: the timer is not held at the maximum
SprintUncapped(p, i) ==
    IF i.shift /\ ~p.sprintExhausted
    THEN LET t == p.sprintTimer + i.dt
         IN  IF t >= maxSprintTime
             THEN [p EXCEPT !.sprintExhausted = TRUE, !.sprintTimer = t]
             ELSE [p EXCEPT !.sprintTimer = t]
    ELSE LET t == Max(p.sprintTimer - i.dt * 2, 0)
         IN  [p EXCEPT !.sprintTimer = t,
                       !.sprintExhausted = IF t <= 0 THEN FALSE ELSE @]

\* variant of Sprint: releasing the run input clears the exhaustion
SprintForgiving(p, i) ==
    IF i.shift /\ ~p.sprintExhausted
    THEN LET t == p.sprintTimer + i.dt
         IN  IF t >= maxSprintTime
             THEN [p EXCEPT !.sprintExhausted = TRUE, !.sprintTimer = maxSprintTime]
             ELSE [p EXCEPT !.sprintTimer = t]
    ELSE LET t == Max(p.sprintTimer - i.dt * 2, 0)
         IN  [p EXCEPT !.sprintTimer = t,
                       !.sprintExhausted = IF t <= 0 \/ ~i.shift THEN FALSE ELSE @]

\* sprint resource
Sprint(p, i) ==
    IF i.shift /\ ~p.sprintExhausted
    THEN LET t == p.sprintTimer + i.dt
         IN  IF t >= maxSprintTime
             THEN [p EXCEPT !.sprintExhausted = TRUE, !.sprintTimer = maxSprintTime]
             ELSE [p EXCEPT !.sprintTimer = t]
    ELSE LET t == Max(p.sprintTimer - i.dt * 2, 0)
         IN  [p EXCEPT !.sprintTimer = t,
                       !.sprintExhausted = IF t <= 0 THEN FALSE ELSE @]

\* from `bool onGround = platformY >= 0` to `player.position = nextPos`
FromGroundCheck(looked, nextPos, platformY, i) ==
    LET onGround == platformY >= 0
        landed   == Landing(looked, onGround)
        sped     == SelectSpeed(landed, i, onGround)
        moved    == Vertical([sped EXCEPT !.position = nextPos], i, onGround,
                             platformY)
        slid     == Sliding(moved, i, onGround)
    IN  [player |-> Sprint(slid, i), onGround |-> onGround]

\* from `float platformY = isOnPlatform(nextPos)` on
FromMovement(looked, nextPos, i) ==
    FromGroundCheck(looked, nextPos, isOnPlatform(nextPos), i)

\* from the computation of forward and left on, looked being the player
\* after mouse look
FromMouseLook(looked, i) ==
    FromMovement(looked, Movement(looked, i, Forward(looked), Left(looked)), i)

\* mouse look to `player.position = nextPos`; wasOnGround and prevCrouching
\* still hold the previous frame's values, onGround is returned beside it
Locomotion(p0, i) == FromMouseLook(MouseLook(p0, i), i)

-----------------------------------------------------------------------------
(* Frame update: combat *)

\* the projectile a fire event creates
NewProjectile(p) ==
    LET forward == Forward(p)
    IN  [position |-> Vec(p.position.x + Quot(forward.x * spawnOffset, UnitDir),
                          p.position.y + Quot(forward.y * spawnOffset, UnitDir),
                          p.position.z + Quot(forward.z * spawnOffset, UnitDir)),
         velocity |-> Vec(Quot(forward.x * projectileSpeed, UnitDir),
                          Quot(forward.y * projectileSpeed, UnitDir),
                          Quot(forward.z * projectileSpeed, UnitDir)),
         radius   |-> projectileRadius,
         lifetime |-> projectileLifetime]

\* variant of Fire: the shot is not counted
FireUncounted(s, i) ==
    IF i.fire
    THEN [s EXCEPT !.world.projectiles = Append(@, NewProjectile(s.player))]
    ELSE s

\* fire projectile, on a frame state s
Fire(s, i) ==
    IF i.fire
    THEN [s EXCEPT !.world.projectiles = Append(@, NewProjectile(s.player)),
                   !.player.shotsFired = @ + 1]
    ELSE s

\* update enemy flash timers
FlashDecay(enemies, dt) ==
    [k \in 1..Len(enemies) |->
        [enemies[k] EXCEPT !.flashTimer = Max(@ - dt, 0)]]

\* variant of HitEnemy: a hit takes twice the damage
HitEnemyHard(e) ==
    [e EXCEPT !.health = @ - 2 * projectileDamage, !.flashTimer = enemyFlashDuration]

\* what a projectile hit does to the enemy
HitEnemy(e) ==
    [e EXCEPT !.health = @ - projectileDamage, !.flashTimer = enemyFlashDuration]

\* variant of MoveProjectile: the lifetime is not reduced
MoveProjectileAgeless(proj, dt) ==
    [proj EXCEPT !.position = Vec(@.x + proj.velocity.x * dt,
                                  @.y + proj.velocity.y * dt,
                                  @.z + proj.velocity.z * dt)]

\* integrate a projectile's position and take dt off its lifetime
MoveProjectile(proj, dt) ==
    [proj EXCEPT !.position = Vec(@.x + proj.velocity.x * dt,
                                  @.y + proj.velocity.y * dt,
                                  @.z + proj.velocity.z * dt),
                 !.lifetime = @ - dt]

\* variant of ProjectileStep: the enemy loop does not stop at the first hit
ProjectileStepAll(s, k, dt) ==
    LET proj    == s.world.projectiles[k]
        prevPos == proj.position
        moved   == MoveProjectile(proj, dt)
        onPlatform ==
            \E j \in 1..Len(platforms) :
                SweptSphereVsAABB(prevPos, moved.position, moved.radius,
                                  platforms[j].position, platforms[j].size)
        struck  == {j \in 1..Len(s.world.enemies) :
                       SweptSphereVsAABB(prevPos, moved.position, moved.radius,
                                         s.world.enemies[j].position, enemySize)}
    IN  IF proj.lifetime <= 0 THEN s
        ELSE IF moved.lifetime <= 0
        THEN [s EXCEPT !.world.projectiles[k] = moved]
        ELSE IF onPlatform
        THEN [s EXCEPT !.world.projectiles[k] = [moved EXCEPT !.lifetime = 0]]
        ELSE IF struck # {}
        THEN [s EXCEPT !.world.projectiles[k] = [moved EXCEPT !.lifetime = 0],
                       !.world.enemies =
                           [j \in 1..Len(s.world.enemies) |->
                               IF j \in struck THEN HitEnemy(@[j]) ELSE @[j]],
                       !.player.shotsHit = @ + Cardinality(struck)]
        ELSE [s EXCEPT !.world.projectiles[k] = moved]

\* one iteration of the projectile loop, for world.projectiles[k], on a
\* frame state s
ProjectileStep(s, k, dt) ==
    LET proj    == s.world.projectiles[k]
        prevPos == proj.position
        moved   == MoveProjectile(proj, dt)
        onPlatform ==
            \E j \in 1..Len(platforms) :
                SweptSphereVsAABB(prevPos, moved.position, moved.radius,
                                  platforms[j].position, platforms[j].size)
        struck  == {j \in 1..Len(s.world.enemies) :
                       SweptSphereVsAABB(prevPos, moved.position, moved.radius,
                                         s.world.enemies[j].position, enemySize)}
        first   == CHOOSE j \in struck : \A m \in struck : j <= m
    IN  IF proj.lifetime <= 0 THEN s
        ELSE IF moved.lifetime <= 0
        THEN [s EXCEPT !.world.projectiles[k] = moved]
        ELSE IF onPlatform
        THEN [s EXCEPT !.world.projectiles[k] = [moved EXCEPT !.lifetime = 0]]
        ELSE IF struck # {}
        THEN [s EXCEPT !.world.projectiles[k] = [moved EXCEPT !.lifetime = 0],
                       !.world.enemies[first] = HitEnemy(@),
                       !.player.shotsHit      = @ + 1]
        ELSE [s EXCEPT !.world.projectiles[k] = moved]

\* the projectile loop from index k on
RECURSIVE ProjectileLoop(_, _, _)
ProjectileLoop(s, k, dt) ==
    IF k > Len(s.world.projectiles) THEN s
    ELSE ProjectileLoop(ProjectileStep(s, k, dt), k + 1, dt)

ProjectilePass(s, dt) == ProjectileLoop(s, 1, dt)

\* variant of RemoveDeadProjectiles: the threshold is strict
RemoveDeadProjectilesStrict(projectiles) ==
    SelectSeq(projectiles, LAMBDA pr : ~(pr.lifetime < 0))

\* remove dead projectiles
RemoveDeadProjectiles(projectiles) ==
    SelectSeq(projectiles, LAMBDA pr : ~(pr.lifetime <= 0))

\* variant of RemoveDeadEnemies: the threshold is strict
RemoveDeadEnemiesStrict(s) ==
    LET oldCount == Len(s.world.enemies)
        kept     == SelectSeq(s.world.enemies, LAMBDA e : ~(e.health < 0))
    IN  [s EXCEPT !.world.enemies = kept,
                  !.player.enemiesDefeated = @ + (oldCount - Len(kept))]

\* remove dead enemies and count defeated, on a frame state s
RemoveDeadEnemies(s) ==
    LET oldCount == Len(s.world.enemies)
        kept     == SelectSeq(s.world.enemies, LAMBDA e : ~(e.health <= 0))
    IN  [s EXCEPT !.world.enemies = kept,
                  !.player.enemiesDefeated = @ + (oldCount - Len(kept))]

-----------------------------------------------------------------------------
(* Frame update: enemy AI movement and player damage *)

\* move towards the player (XZ plane only)
Pursue(e, p, dt) ==
    LET tx     == p.position.x - e.position.x
        tz     == p.position.z - e.position.z
        distSq == tx * tx + tz * tz
        dist   == ISqrt(distSq)
        candidate == [e.position EXCEPT
                         !.x = @ + Quot(tx * enemySpeed * dt, dist),
                         !.z = @ + Quot(tz * enemySpeed * dt, dist)]
    IN  IF distSq > distEpsilon * distEpsilon
           /\ ~EnemyCollidesPlatform(candidate, enemySize.x \div 2)
        THEN [e EXCEPT !.position = candidate]
        ELSE e

\* variant of Cooldown: the cooldown runs down twice as fast
CooldownTwice(e, dt) ==
    IF e.damageCooldown > 0 THEN [e EXCEPT !.damageCooldown = @ - 2 * dt] ELSE e

\* update damage cooldown
Cooldown(e, dt) ==
    IF e.damageCooldown > 0 THEN [e EXCEPT !.damageCooldown = @ - dt] ELSE e

\* the sphere-vs-sphere test against the player
TouchesPlayer(e, p) ==
    LET combinedRadius == playerRadius + enemySize.x \div 2
        dx == p.position.x - e.position.x
        dy == p.position.y - e.position.y
        dz == p.position.z - e.position.z
    IN  /\ Abs(dx) < combinedRadius /\ Abs(dy) < combinedRadius
        /\ Abs(dz) < combinedRadius
        /\ dx * dx + dy * dy + dz * dz < combinedRadius * combinedRadius

\* variant of Damage: no clamp
DamageUnclamped(health) == health - damageAmount

\* player.health after one enemy's damage
Damage(health) == Max(health - damageAmount, 0)

\* one iteration of the enemy loop, for world.enemies[k], on a frame state s
EnemyStep(s, k, dt) ==
    LET e0      == s.world.enemies[k]
        e1      == Cooldown(Pursue(e0, s.player, dt), dt)
        elapsed == IF e1.damages = 0 THEN 0
                   ELSE Min(e1.sinceDamage + dt, damageInterval)
        e2      == [e1 EXCEPT !.sinceDamage = elapsed]
    IN  IF TouchesPlayer(e2, s.player) /\ e2.damageCooldown <= 0
        THEN [s EXCEPT
                 !.player.health   = Damage(@),
                 !.world.enemies[k] =
                     [e2 EXCEPT !.damageCooldown = damageInterval,
                                !.damages        = Min(@ + 1, 2),
                                !.sinceDamage    = 0,
                                !.lastGap        = elapsed]]
        ELSE [s EXCEPT !.world.enemies[k] = e2]

RECURSIVE EnemyLoop(_, _, _)
EnemyLoop(s, k, dt) ==
    IF k > Len(s.world.enemies) THEN s
    ELSE EnemyLoop(EnemyStep(s, k, dt), k + 1, dt)

EnemyAI(s, dt) == EnemyLoop(s, 1, dt)

-----------------------------------------------------------------------------
(* GameUpdate *)

\* variant of CheckGameOver: the comparison is strict
CheckGameOverStrict(health) == health < 0

\* `if (player.health <= 0) isGameOver = true`, the flag being false before
CheckGameOver(health) == health <= 0

\* variant of GameOverFrame: the survival clock is advanced before the
\* game-over test
GameOverFrameTicking(s, i) ==
    IF i.space THEN GameInit(s)
    ELSE [s EXCEPT !.player.survivalTime = @ + i.dt]

\* a frame entered with isGameOver true, on the state s
GameOverFrame(s, i) == IF i.space THEN GameInit(s) ELSE s

(* An active frame works on a frame state: player and world, and, once     *)
(* they exist, the local onGround and the record pass of the sequences as  *)
(* the projectile pass left them.                                          *)

\* the frame state after locomotion: the local onGround comes to life
Located(s, loc) ==
    [player |-> loc.player, world |-> s.world, onGround |-> loc.onGround]

\* the frame state after the projectile pass, the sequences recorded before
\* the erase calls
Passed(s) ==
    [player |-> s.player, world |-> s.world, onGround |-> s.onGround,
     pass   |-> [projectiles |-> s.world.projectiles,
                 enemies     |-> s.world.enemies]]

\* game over check and the two bookkeeping assignments that end the frame
EndOfFrame(s, i) ==
    [player     |-> [s.player EXCEPT !.prevCrouching = i.c,
                                     !.wasOnGround   = s.onGround],
     world      |-> s.world,
     isGameOver |-> CheckGameOver(s.player.health),
     pass       |-> s.pass]

\* variant of ActiveFrame: the enemy loop runs before the two erase calls
ActiveFrameAIFirst(s, i) ==
    LET timed   == [s EXCEPT !.player.survivalTime = @ + i.dt,
                             !.world = SpawnTick(@, i.dt, i.rnd)]
        located == Located(timed, Locomotion(timed.player, i))
        fired   == Fire(located, i)
        flashed == [fired EXCEPT !.world.enemies = FlashDecay(@, i.dt)]
        passed  == Passed(ProjectilePass(flashed, i.dt))
        fought  == EnemyAI(passed, i.dt)
        swept   == RemoveDeadEnemies([fought EXCEPT !.world.projectiles = RemoveDeadProjectiles(@)])
    IN  EndOfFrame(swept, i)

\* an active frame (isGameOver false on entry) on s = [player, world]
ActiveFrame(s, i) ==
    LET timed   == [s EXCEPT !.player.survivalTime = @ + i.dt,
                             !.world = SpawnTick(@, i.dt, i.rnd)]
        located == Located(timed, Locomotion(timed.player, i))
        fired   == Fire(located, i)
        flashed == [fired EXCEPT !.world.enemies = FlashDecay(@, i.dt)]
        passed  == Passed(ProjectilePass(flashed, i.dt))
        swept   == RemoveDeadEnemies(
                      [passed EXCEPT
                          !.world.projectiles = RemoveDeadProjectiles(@)])
        fought  == EnemyAI(swept, i.dt)
    IN  EndOfFrame(fought, i)

\* the state a frame has computed becomes the program's state
Assign(r) ==
    /\ player' = r.player
    /\ world' = r.world
    /\ isGameOver' = r.isGameOver
    /\ pass' = r.pass

\* one call of GameUpdate with the inputs i
GameUpdate(i) ==
    /\ in' = i
    /\ before' = player
    /\ IF isGameOver
       THEN Assign(GameOverFrame([player |-> player, world |-> world,
                                  isGameOver |-> isGameOver, pass |-> pass], i))
       ELSE Assign(ActiveFrame([player |-> player, world |-> world], i))

-----------------------------------------------------------------------------
(* GameDraw: the score it derives from the player's counters.  accuracy is *)
(* kept as an exact fraction <<numerator, denominator>>.                    *)

scorePerEnemy == 100

\* `int score = player.enemiesDefeated * 100`
Score(p) == p.enemiesDefeated * scorePerEnemy

\* variant of Accuracy: the quotient is formed without the test of shotsFired
AccuracyUnguarded(p) == <<p.shotsHit, p.shotsFired>>

\* `(player.shotsFired > 0) ? (float)player.shotsHit / player.shotsFired : 0.0f`
Accuracy(p) == IF p.shotsFired > 0 THEN <<p.shotsHit, p.shotsFired>> ELSE <<0, 1>>

\* `int finalScore = (int)(score + score * accuracy)`
FinalScore(p) ==
    Quot(Score(p) * Accuracy(p)[2] + Score(p) * Accuracy(p)[1], Accuracy(p)[2])

-----------------------------------------------------------------------------
(* The host loop: inputs and bounds *)

MaxFrames       == 5   \* GameUpdate calls of a run of the session host
MaxCombatFrames == 6   \* GameUpdate calls of a run of the combat host
MaxMoveFrames   == 4   \* GameUpdate calls of a run of the movement host

NoInput ==
    [dt |-> 0, W |-> FALSE, S |-> FALSE, A |-> FALSE, D |-> FALSE,
     shift |-> FALSE, c |-> FALSE, space |-> FALSE, fire |-> FALSE,
     mdx |-> 0, mdy |-> 0, rnd |-> <<0, 0>>]

\* whether the frame consumes the random source
Spawns(i) ==
    /\ ~isGameOver
    /\ world.enemySpawnTimer + i.dt >= enemySpawnInterval
    /\ Len(world.enemies) < enemyMaxCount

\* every key but space, the fire button and the mouse, at once
AllButSpace ==
    [NoInput EXCEPT !.W = TRUE, !.S = TRUE, !.A = TRUE, !.D = TRUE,
                    !.shift = TRUE, !.c = TRUE, !.fire = TRUE,
                    !.mdx = 1, !.mdy = 1]

\* pads the host supplies only while the game is over
GameOverPads ==
    {AllButSpace, [AllButSpace EXCEPT !.space = TRUE],
     [NoInput EXCEPT !.W = TRUE, !.shift = TRUE],
     [NoInput EXCEPT !.fire = TRUE, !.mdx = 2]}

\* one iteration of the host loop: the host supplies pad (keys, buttons,
\* mouse), dt and the random source rnd, and calls GameUpdate
Host(pads, dts, rnds, maxFrames) ==
    /\ frame < maxFrames
    /\ frame' = frame + 1
    /\ UNCHANGED probe
    /\ \E pad \in (IF isGameOver THEN pads \cup GameOverPads ELSE pads),
          dt \in dts :
          \E r \in (IF Spawns([pad EXCEPT !.dt = dt])
                    THEN {q \in rnds : InSpawnRange(q)}
                    ELSE {pad.rnd}) :
              GameUpdate([pad EXCEPT !.dt = dt, !.rnd = r])

\* no geometry query has been made on its own
NoProbe ==
    [query |-> "none", a |-> Vec(0, 0, 0), b |-> Vec(0, 0, 0),
     dir |-> Vec(0, 0, 0), scale |-> 0,
     keys |-> [W |-> FALSE, S |-> FALSE, D |-> FALSE, A |-> FALSE],
     colliding |-> FALSE, platformY |-> noPlatform, hit |-> FALSE]

\* the state main's GameInit call leaves: the start of the first session
SessionStart ==
    GameInit([player |-> PlayerStatic, world |-> WorldStatic,
              isGameOver |-> FALSE])

Init ==
    /\ player = SessionStart.player
    /\ world = SessionStart.world
    /\ isGameOver = SessionStart.isGameOver
    /\ in = NoInput
    /\ before = SessionStart.player
    /\ pass = [projectiles |-> <<>>, enemies |-> <<>>]
    /\ frame = 0
    /\ probe = NoProbe

(* The session host: an enemy is created on the player every two seconds   *)
SessionDts == {0, 10, 20}

SessionSpawns == {<<0, 0>>}

SessionPads ==
    {NoInput, [NoInput EXCEPT !.space = TRUE],
     [NoInput EXCEPT !.shift = TRUE, !.c = TRUE]}

Next == Host(SessionPads, SessionDts, SessionSpawns, MaxFrames)

Spec == Init /\ [][Next]_vars

(* The combat host: the player fires, ahead at the cube or turned round,   *)
(* at enemies created three metres behind or five metres ahead of the      *)
(* start position                                                          *)
CombatDts == {0, 15}

CombatSpawns == {<<0, -300>>, <<0, 500>>}

CombatPads ==
    {NoInput, [NoInput EXCEPT !.fire = TRUE], [NoInput EXCEPT !.mdx = 2]}

NextCombat == Host(CombatPads, CombatDts, CombatSpawns, MaxCombatFrames)

SpecCombat == Init /\ [][NextCombat]_vars

(* The movement host: the player jumps, or holds run and crouch, through   *)
(* frames of 0.1 s, 0.6 s and 5 s; enemies are created twenty metres off   *)
(* on both axes                                                            *)
MoveDts == {1, 6, 50}

MoveSpawns == {<<2000, 2000>>}

MovePads ==
    {NoInput, [NoInput EXCEPT !.space = TRUE],
     [NoInput EXCEPT !.shift = TRUE, !.c = TRUE]}

NextMove == Host(MovePads, MoveDts, MoveSpawns, MaxMoveFrames)

SpecMove == Init /\ [][NextMove]_vars

(* The speed host: run and crouch on the ground, frames of 0.3 s and 5 s *)
MaxSpeedFrames == 4

SpeedDts == {3, 50}

SpeedSpawns == {<<2000, 2000>>}

SpeedPads ==
    {NoInput,
     [NoInput EXCEPT !.shift = TRUE],
     [NoInput EXCEPT !.shift = TRUE, !.c = TRUE]}

NextSpeed == Host(SpeedPads, SpeedDts, SpeedSpawns, MaxSpeedFrames)

SpecSpeed == Init /\ [][NextSpeed]_vars

(* The swarm host: no input, frames of 4 s, every frame spawns an enemy,  *)
(* either behind the cube, which blocks its way to the player, or inside   *)
(* the cube's footprint one step away from the player                      *)
MaxSwarmFrames == 11

SwarmDts == {40}

SwarmSpawns == {<<0, 2000>>, <<0, 1000>>}

SwarmPads == {NoInput}

NextSwarm == Host(SwarmPads, SwarmDts, SwarmSpawns, MaxSwarmFrames)

SpecSwarm == Init /\ [][NextSwarm]_vars

(* The nest host: frames of 0.6 s and 0.7 s, enemies spawned inside the  *)
(* cube's footprint                                                       *)
MaxNestFrames == 5

NestDts == {6, 7}

NestSpawns == {<<0, 1000>>}

NestPads == {NoInput, [NoInput EXCEPT !.shift = TRUE]}

NextNest == Host(NestPads, NestDts, NestSpawns, MaxNestFrames)

SpecNest == Init /\ [][NextNest]_vars

(* The geometry queries called on their own, one call in each behaviour:   *)
(* the point queries on points                                             *)
(* on, and one centimetre to either side of, every face of the two         *)
(* expanded platform bounds; the swept query on segments around a thin box *)
(* (half-width 0.1) at the origin, with the projectile radius              *)
ProbeXs == {-2551, -2550, -2549, -151, -150, -149, 0, 149, 150, 151, 2549, 2550, 2551}

ProbeYs == {-101, -100, -99, -1, 0, 1, 99, 100, 101, 299, 300, 301}

ProbeZs == {-2551, -2550, -2549, 0, 849, 850, 851, 1000, 1149, 1150, 1151, 2549, 2550, 2551}

ThinBox == [position |-> Vec(0, 0, 0), size |-> Vec(20, 20, 20)]

SegmentEnds ==
    {Vec(x, y, z) : x \in {-1000, -11, -5, 1000}, y \in {-12, -11, 0, 11, 12},
                    z \in {0, 12}}

\* isCollidingPlatform and isOnPlatform called with a point
ProbePoint ==
    /\ probe = NoProbe
    /\ \E x \in ProbeXs, y \in ProbeYs, z \in ProbeZs :
           probe' = [NoProbe EXCEPT
                        !.query     = "point",
                        !.a         = Vec(x, y, z),
                        !.colliding = isCollidingPlatform(Vec(x, y, z)),
                        !.platformY = isOnPlatform(Vec(x, y, z))]
    /\ UNCHANGED <<player, world, isGameOver, in, before, pass, frame>>

\* SweptSphereVsAABB called with a segment and the thin box
ProbeSegment ==
    /\ probe = NoProbe
    /\ \E start \in SegmentEnds, end \in SegmentEnds :
           probe' = [NoProbe EXCEPT
                        !.query = "segment",
                        !.a     = start,
                        !.b     = end,
                        !.hit   = SweptSphereVsAABB(start, end, projectileRadius,
                                                    ThinBox.position, ThinBox.size)]
    /\ UNCHANGED <<player, world, isGameOver, in, before, pass, frame>>

\* positions at floor rest height around a corner of the cube's expanded
\* bound, view directions off the axes, and step lengths
MovePoints == {Vec(x, 100, z) : x \in {-180, -160, -140}, z \in {820, 840, 860}}

MoveDirs == {Vec(3, 0, 4), Vec(4, 0, 3), Vec(0, 0, 5), Vec(5, 0, 0), Vec(-3, 0, -4)}

MoveScales == {25, 50, -50}

MoveKeys == [W : BOOLEAN, S : BOOLEAN, D : BOOLEAN, A : BOOLEAN]

\* the tryMove closure called once with a running position, a direction and
\* a scale
ProbeMove ==
    /\ probe = NoProbe
    /\ \E pt \in MovePoints, dir \in MoveDirs, scale \in MoveScales :
           probe' = [NoProbe EXCEPT
                        !.query = "move",
                        !.a     = pt,
                        !.dir   = dir,
                        !.scale = scale,
                        !.b     = tryMove(pt, dir, scale)]
    /\ UNCHANGED <<player, world, isGameOver, in, before, pass, frame>>

\* the four directional inputs of one frame of 0.1 s at walk speed, the
\* player at pt looking along forward
ProbeMovement ==
    /\ probe = NoProbe
    /\ \E pt \in MovePoints, forward \in MoveDirs, keys \in MoveKeys :
           probe' = [NoProbe EXCEPT
                        !.query = "movement",
                        !.a     = pt,
                        !.dir   = forward,
                        !.scale = walkSpeed,
                        !.keys  = keys,
                        !.b     = Movement([SessionStart.player EXCEPT !.position = pt],
                                           [NoInput EXCEPT !.dt = 1,
                                                           !.W = keys.W, !.S = keys.S,
                                                           !.D = keys.D, !.A = keys.A],
                                           forward,
                                           Vec(forward.z, 0, -forward.x))]
    /\ UNCHANGED <<player, world, isGameOver, in, before, pass, frame>>

NextGeometry == ProbePoint \/ ProbeSegment \/ ProbeMove \/ ProbeMovement

SpecGeometry == Init /\ [][NextGeometry]_vars

-----------------------------------------------------------------------------
(* Session outcome *)

\* this step is a GameUpdate call entered with the game running
ActiveStep == ~isGameOver /\ frame' = frame + 1

\* this step is a GameUpdate call entered in game-over, restart not pressed
FrozenStep == isGameOver /\ frame' = frame + 1 /\ ~in'.space

\* this step is a GameUpdate call entered in game-over with restart pressed
RestartStep == isGameOver /\ frame' = frame + 1 /\ in'.space

\* C1: game-over happens on the exact frame.  Every GameUpdate call ends
\* with isGameOver true if player health is at or below 0; the flag is never
\* set a frame later.
C1_GameOverOnExactFrame == player.health <= 0 => isGameOver

\* an active frame has just taken the last of the player's health
C1_Witness == isGameOver /\ player.health = 0 /\ in.dt > 0 /\ frame > 0

\* C2: while the game is over and no restart edge is observed, a GameUpdate
\* call leaves player, world (projectiles, enemies, spawn timer) and the
\* game-over flag unchanged, whatever the other inputs and dt are.
C2_GameOverFreezes ==
    [][FrozenStep =>
          player' = player /\ world' = world /\ isGameOver' = isGameOver]_vars

\* a frozen frame has run with every key but space down, the fire button
\* pressed, the mouse moved and dt > 0 (pads of this kind are supplied only
\* while the game is over)
C2_Witness == isGameOver /\ in = [AllButSpace EXCEPT !.dt = 20]

\* C3: after a restart edge in game-over the whole session state equals the
\* state at session start, every player timer and flag included.
C3_RestartRestoresEverything ==
    [][RestartStep =>
          /\ player' = SessionStart.player
          /\ world' = SessionStart.world
          /\ isGameOver' = SessionStart.isGameOver]_vars

\* C4: player health stays within 0..100 (damage is clamped at 0) and never
\* increases except by restart.
C4_HealthRange ==
    [][/\ 0 <= player'.health /\ player'.health <= playerHealth
       /\ player'.health > player.health => RestartStep]_vars

\* three enemies have just damaged the player together and health is 0
C4_Witness ==
    /\ player.health = 0
    /\ Len(world.enemies) = 3
    /\ \A k \in 1..3 : /\ world.enemies[k].damages >= 1
                       /\ world.enemies[k].sinceDamage = 0

\* C5: an enemy cannot damage the player twice within its cooldown
\* interval.  For every enemy, the frame time accumulated between two frames
\* on which it damages the player is at least damageInterval.
C5_DamageCooldown ==
    \A k \in 1..Len(world.enemies) :
        world.enemies[k].damages >= 2 =>
            world.enemies[k].lastGap >= damageInterval

\* some enemy has damaged the player a second time
C5_Witness == \E k \in 1..Len(world.enemies) : world.enemies[k].damages >= 2

-----------------------------------------------------------------------------
(* Combat *)

\* the number of enemies of the sequence at or below the death threshold
NumDead(enemies) == Cardinality({k \in 1..Len(enemies) : enemies[k].health <= 0})

\* C6: enemy removal at threshold.  At the end of every active frame no
\* enemy with health at or below 0 is in the live sequence, exactly the
\* enemies the projectile pass left dead are gone, and enemiesDefeated has
\* grown by exactly their number.
C6_EnemyRemoval ==
    [][ActiveStep =>
          /\ NumDead(world'.enemies) = 0
          /\ Len(world'.enemies) = Len(pass'.enemies) - NumDead(pass'.enemies)
          /\ player'.enemiesDefeated =
                 player.enemiesDefeated + NumDead(pass'.enemies)]_vars

\* an enemy has just been removed and counted
C6_Witness ==
    /\ ~isGameOver
    /\ NumDead(pass.enemies) >= 1
    /\ player.enemiesDefeated >= 1

\* C7: an enemy's health never drops below the point of removal: no enemy
\* has health below 0, also not between the projectile pass and compaction.
C7_EnemyHealthNeverNegative ==
    /\ \A k \in 1..Len(world.enemies) : world.enemies[k].health >= 0
    /\ \A k \in 1..Len(pass.enemies) : pass.enemies[k].health >= 0

\* C8: a projectile is removed on the frame its lifetime reaches zero or
\* below: every projectile of the live sequence has lifetime above 0.
C8_ProjectileRemoval ==
    \A k \in 1..Len(world.projectiles) : world.projectiles[k].lifetime > 0

\* the last frame's pass left one projectile out of time or forced to 0 and
\* another still live
C8_Witness ==
    /\ ~isGameOver
    /\ \E k \in 1..Len(pass.projectiles) : pass.projectiles[k].lifetime <= 0
    /\ Len(world.projectiles) >= 1

\* C9 as stated: the lifetime of every projectile live at the start of an
\* active frame is strictly smaller after that frame's projectile pass, for
\* every dt >= 0.
C9_LifetimeStrictlyDecreases ==
    [][ActiveStep =>
          \A k \in 1..Len(world.projectiles) :
              pass'.projectiles[k].lifetime < world.projectiles[k].lifetime]_vars

\* C9 as amended: the lifetime of every projectile live at the start of an
\* active frame is not greater after that frame's projectile pass, and it is
\* strictly smaller when dt > 0.
C9_LifetimeDecreases ==
    [][ActiveStep =>
          \A k \in 1..Len(world.projectiles) :
              /\ pass'.projectiles[k].lifetime <= world.projectiles[k].lifetime
              /\ in'.dt > 0 =>
                     pass'.projectiles[k].lifetime < world.projectiles[k].lifetime]_vars

\* a frame with dt > 0 has run its pass over a projectile of an earlier
\* frame that is still live after it
C9_Witness ==
    /\ ~isGameOver
    /\ in.dt > 0
    /\ Len(pass.projectiles) >= 2
    /\ pass.projectiles[1].lifetime > 0

\* the first shot of a session is fired in this step
FirstShot ==
    /\ ActiveStep
    /\ in'.fire
    /\ player.shotsFired = 0
    /\ player.shotsHit = 0
    /\ world.projectiles = <<>>

\* the square of a velocity's length
SpeedSq(v) == v.x * v.x + v.y * v.y + v.z * v.z

\* C10 as stated: the first shot leaves, at the end of its frame, exactly
\* one live projectile, of lifetime projectileLifetime and speed
\* projectileSpeed, and shotsFired = 1.
C10_FirstShotLive ==
    [][FirstShot =>
          /\ player'.shotsFired = 1
          /\ Len(world'.projectiles) = 1
          /\ world'.projectiles[1].lifetime = projectileLifetime
          /\ SpeedSq(world'.projectiles[1].velocity) =
                 projectileSpeed * projectileSpeed]_vars

\* C10 as amended: the first shot creates exactly one projectile, of speed
\* projectileSpeed, and shotsFired = 1; the frame's own projectile pass
\* already acts on it, so at the end of the frame it is either the one live
\* projectile, with lifetime projectileLifetime - dt, or already removed
\* (out of time, or forced to 0 by a hit in that frame).
C10_FirstShot ==
    [][FirstShot =>
          /\ player'.shotsFired = 1
          /\ Len(pass'.projectiles) = 1
          /\ SpeedSq(pass'.projectiles[1].velocity) =
                 projectileSpeed * projectileSpeed
          /\ pass'.projectiles[1].lifetime \in {0, projectileLifetime - in'.dt}
          /\ IF pass'.projectiles[1].lifetime > 0
             THEN world'.projectiles = pass'.projectiles
             ELSE world'.projectiles = <<>>]_vars

\* the first shot has been fired in a frame with dt > 0 and is still live
C10_Witness ==
    /\ player.shotsFired = 1
    /\ in.fire
    /\ in.dt > 0
    /\ Len(world.projectiles) = 1
    /\ world.projectiles[1].lifetime = projectileLifetime - in.dt

-----------------------------------------------------------------------------
(* Projectile collisions *)

\* the position projectile k of this step's pass had before the pass moved
\* it: that of the frame's start, or of the fire event of this frame
PositionBefore(k) ==
    IF k <= Len(world.projectiles) THEN world.projectiles[k].position
    ELSE NewProjectile(player').position

\* the lifetime it had before the pass
LifetimeBefore(k) ==
    IF k <= Len(world.projectiles) THEN world.projectiles[k].lifetime
    ELSE projectileLifetime

\* the health enemy j had before this step's pass
HealthBefore(j) ==
    IF j <= Len(world.enemies) THEN world.enemies[j].health ELSE enemyHealth

\* the swept interval of the only projectile against a box
SoleSweep(boxPos, boxSize) ==
    SweptInterval(PositionBefore(1), pass'.projectiles[1].position,
                  pass'.projectiles[1].radius, boxPos, boxSize)

\* this step's pass moves exactly one projectile, which is live before and
\* after the move, and there is exactly one enemy, which is live
SoleShotStep ==
    /\ ActiveStep
    /\ Len(pass'.projectiles) = 1
    /\ LifetimeBefore(1) > 0
    /\ LifetimeBefore(1) - in'.dt > 0
    /\ Len(pass'.enemies) = 1
    /\ HealthBefore(1) > 0

\* the only projectile's path enters the only enemy, and enters it before
\* it enters any platform
EnemyFirst ==
    LET e == SoleSweep(pass'.enemies[1].position, enemySize)
    IN  /\ e.ok
        /\ \A j \in 1..Len(platforms) :
               LET q == SoleSweep(platforms[j].position, platforms[j].size)
               IN  q.ok => ~FracLeq(q.tmin, e.tmin)

\* C11: first collision wins.  If in a frame a live projectile's swept path
\* intersects a live enemy before it intersects any platform, then in that
\* frame the enemy's health decreases by 25, shotsHit increases by 1 and the
\* projectile's lifetime becomes 0, also when a platform lies further along
\* the same frame's path (stated for a frame with one projectile and one
\* enemy).
C11_FirstCollisionWins ==
    [][SoleShotStep /\ EnemyFirst =>
          /\ pass'.enemies[1].health = HealthBefore(1) - projectileDamage
          /\ player'.shotsHit = player.shotsHit + 1
          /\ pass'.projectiles[1].lifetime = 0]_vars

\* the health this step's pass took from enemy j
DamageTaken(j) == HealthBefore(j) - pass'.enemies[j].health

RECURSIVE TotalDamage(_)
\* the health this step's pass took from the enemies 1..n
TotalDamage(n) == IF n = 0 THEN 0 ELSE TotalDamage(n - 1) + DamageTaken(n)

\* projectile k's path of this step enters some platform
PathMeetsPlatform(k) ==
    \E j \in 1..Len(platforms) :
        SweptInterval(PositionBefore(k), pass'.projectiles[k].position,
                      pass'.projectiles[k].radius,
                      platforms[j].position, platforms[j].size).ok

\* the projectiles of this step's pass that can have hit an enemy: live
\* before and after the move, clear of the platforms, lifetime forced to 0
Hitters ==
    {k \in 1..Len(pass'.projectiles) :
        /\ LifetimeBefore(k) > 0
        /\ LifetimeBefore(k) - in'.dt > 0
        /\ ~PathMeetsPlatform(k)
        /\ pass'.projectiles[k].lifetime = 0}

\* C12: a projectile affects at most one enemy.  In every active frame the
\* enemies lose exactly 25 health per counted hit and no health otherwise,
\* there are no more hits than projectiles that were stopped clear of every
\* platform (so one projectile lowers at most one enemy's health and raises
\* shotsHit by at most 1, and one that hits a platform changes neither), and
\* no projectile whose lifetime was forced to 0 is live after the frame.
C12_OneEnemyPerProjectile ==
    [][ActiveStep =>
          /\ \A j \in 1..Len(pass'.enemies) : DamageTaken(j) >= 0
          /\ TotalDamage(Len(pass'.enemies)) =
                 projectileDamage * (player'.shotsHit - player.shotsHit)
          /\ player'.shotsHit - player.shotsHit <= Cardinality(Hitters)
          /\ Len(world'.projectiles) =
                 Cardinality({k \in 1..Len(pass'.projectiles) :
                                 pass'.projectiles[k].lifetime > 0})]_vars

\* the one projectile of the last pass was stopped by a hit, two enemies
\* stood in the same place on its path, and only the first was damaged
C12_Witness ==
    /\ ~isGameOver
    /\ Len(pass.projectiles) = 1
    /\ pass.projectiles[1].lifetime = 0
    /\ Len(pass.enemies) = 2
    /\ pass.enemies[1].position = pass.enemies[2].position
    /\ pass.enemies[1].health = enemyHealth - projectileDamage
    /\ pass.enemies[2].health = enemyHealth
    /\ player.shotsHit = 1

-----------------------------------------------------------------------------
(* Jumping *)

\* C13: jump budget.  jumpCount never exceeds the double-jump budget,
\* maxJumpCount = 2, in any reachable state, for every sequence of jump
\* presses and frame times.
C13_JumpBudget == player.jumpCount <= maxJumpCount

\* this step is an active frame on which the player lands: detected grounded
\* now (wasOnGround' is the frame's onGround), not grounded the frame before
LandingStep == ActiveStep /\ player'.wasOnGround /\ ~player.wasOnGround

\* C14: landing resets the jump counter.  On every active frame on which
\* the player is detected grounded and was not grounded on the previous
\* frame, jumpCount is set to 0 before the jump input is processed (so the
\* frame ends with jumpCount 1 if the jump input is pressed and 0 if not);
\* on no other frame does jumpCount decrease.
C14_LandingResets ==
    [][/\ LandingStep =>
              player'.jumpCount = IF in'.space THEN 1 ELSE 0
       /\ player'.jumpCount < player.jumpCount => LandingStep]_vars

\* the last frame found the player grounded after an airborne frame with a
\* jump on the counter, and it ended with the counter at 0
C14_Witness ==
    /\ ~isGameOver
    /\ before.jumpCount > 0
    /\ ~before.wasOnGround
    /\ player.wasOnGround
    /\ player.jumpCount = 0

-----------------------------------------------------------------------------
(* Sprint resource *)

\* C15: sprint charge.  On every active frame that starts with the run
\* input held and sprintExhausted false the sprint timer does not decrease;
\* the timer never exceeds maxSprintTime; on the frame it reaches the maximum
\* it is set to exactly the maximum and sprintExhausted becomes true.
C15_SprintCharge ==
    [][/\ player'.sprintTimer <= maxSprintTime
       /\ ActiveStep /\ in'.shift /\ ~player.sprintExhausted =>
              player'.sprintTimer >= player.sprintTimer
       /\ player.sprintTimer < maxSprintTime
              /\ player'.sprintTimer >= maxSprintTime =>
              /\ player'.sprintTimer = maxSprintTime
              /\ player'.sprintExhausted]_vars

\* the last frame charged the timer past the maximum: it stands at the
\* maximum and the sprint is exhausted
C15_Witness ==
    /\ ~isGameOver
    /\ in.shift
    /\ ~before.sprintExhausted
    /\ before.sprintTimer < maxSprintTime
    /\ before.sprintTimer + in.dt > maxSprintTime
    /\ player.sprintTimer = maxSprintTime
    /\ player.sprintExhausted

\* C16: sprint exhaustion is held until fully drained.  On every active
\* frame that starts exhausted, whatever the run input, the timer decays by
\* twice the frame time (not below 0) and sprintExhausted stays true unless
\* the timer has reached 0 on that frame, and then it is false; on no other
\* step is the exhaustion cleared.
C16_ExhaustionHeld ==
    [][/\ ActiveStep /\ player.sprintExhausted =>
              /\ player'.sprintTimer = Max(player.sprintTimer - 2 * in'.dt, 0)
              /\ player'.sprintExhausted = (player'.sprintTimer > 0)
       /\ player.sprintExhausted /\ ~player'.sprintExhausted =>
              ActiveStep /\ player'.sprintTimer = 0]_vars

\* the exhaustion, held through an earlier frame of decay, has just been
\* cleared on the frame the timer reached 0
C16_Witness ==
    /\ ~isGameOver
    /\ before.sprintExhausted
    /\ before.sprintTimer < maxSprintTime
    /\ before.sprintTimer > 0
    /\ player.sprintTimer = 0
    /\ ~player.sprintExhausted

-----------------------------------------------------------------------------
(* Score *)

\* C17: score derivation is total.  In every reachable state, game-over
\* included, the divisor of accuracy is not 0; accuracy is 0 and finalScore
\* is score when shotsFired = 0; accuracy is shotsHit / shotsFired when
\* shotsFired > 0; and finalScore is score + score x accuracy, as the int
\* it is assigned to (the integer part).
C17_ScoreTotal ==
    /\ Accuracy(player)[2] > 0
    /\ Score(player) = player.enemiesDefeated * 100
    /\ IF player.shotsFired = 0
       THEN /\ Accuracy(player)[1] = 0
            /\ FinalScore(player) = Score(player)
       ELSE /\ Accuracy(player)[1] * player.shotsFired =
                   player.shotsHit * Accuracy(player)[2]
            /\ FinalScore(player) * player.shotsFired <=
                   Score(player) * (player.shotsFired + player.shotsHit)
            /\ Score(player) * (player.shotsFired + player.shotsHit) <
                   (FinalScore(player) + 1) * player.shotsFired

\* an enemy is defeated and some shots, not all, have hit: the final score
\* lies strictly between the score and twice the score
C17_Witness ==
    /\ player.enemiesDefeated >= 1
    /\ player.shotsHit >= 1
    /\ player.shotsFired > player.shotsHit
    /\ FinalScore(player) > Score(player)
    /\ FinalScore(player) < 2 * Score(player)

-----------------------------------------------------------------------------
(* Sliding *)

\* this step is an active frame with the player grounded, run held, crouch
\* pressed (held now, not held on the previous frame), not already sliding
\* and slide not queued
SlideStartStep ==
    /\ ActiveStep
    /\ player'.wasOnGround
    /\ in'.shift
    /\ in'.c
    /\ ~player.prevCrouching
    /\ ~player.isSliding
    /\ ~player.slideQueued

\* C18 as stated: the state after a slide-start frame has isSliding = true
\* and slideTimer equal to slideDuration exactly.
C18_SlideStartExact ==
    [][SlideStartStep =>
          /\ player'.isSliding
          /\ player'.slideTimer = slideDuration]_vars

\* C18 as amended: the slide starts with slideTimer = slideDuration and the
\* same frame's sliding update already takes dt off it, so the state after
\* the frame has slideQueued = true, slideTimer = slideDuration - dt, and
\* isSliding = true exactly if dt < slideDuration.
C18_SlideStart ==
    [][SlideStartStep =>
          /\ player'.slideQueued
          /\ player'.slideTimer = slideDuration - in'.dt
          /\ player'.isSliding = (in'.dt < slideDuration)]_vars

\* a slide has just started in a frame with 0 < dt < slideDuration
C18_Witness ==
    /\ ~isGameOver
    /\ in.shift /\ in.c
    /\ player.wasOnGround
    /\ ~before.prevCrouching /\ ~before.isSliding /\ ~before.slideQueued
    /\ in.dt > 0
    /\ player.isSliding
    /\ player.slideTimer = slideDuration - in.dt

\* C19: no slide re-trigger on one crouch hold.  On every active frame that
\* starts with slideQueued true and has crouch held, slideQueued stays true
\* and no slide starts (a running slide only runs down); slideQueued is
\* cleared only on an active frame with crouch released; and a slide starts
\* only from slideQueued false, so between two slide starts there is a frame
\* on which crouch is not held.
C19_NoRetrigger ==
    [][/\ ActiveStep /\ player.slideQueued /\ in'.c =>
              /\ player'.slideQueued
              /\ player'.isSliding => player.isSliding
              /\ player'.slideTimer =
                     IF player.isSliding THEN player.slideTimer - in'.dt
                     ELSE player.slideTimer
       /\ player.slideQueued /\ ~player'.slideQueued => ActiveStep /\ ~in'.c
       /\ (~player.isSliding /\ player'.isSliding) =>
              ~player.slideQueued /\ player'.slideQueued]_vars

\* run and crouch are still held on a frame after the slide has ended by
\* its timer: the slide stays queued and does not start again
C19_Witness ==
    /\ ~isGameOver
    /\ in.shift /\ in.c
    /\ player.wasOnGround
    /\ before.slideQueued /\ ~before.isSliding /\ before.prevCrouching
    /\ player.slideQueued /\ ~player.isSliding
    /\ player.slideTimer = before.slideTimer

\* C20: the sprint timer and the slide timer are clamped to zero at their
\* lower bound: in every reachable state sprintTimer >= 0 and
\* slideTimer >= 0.
C20_TimersNonNegative == player.sprintTimer >= 0 /\ player.slideTimer >= 0

-----------------------------------------------------------------------------
(* Geometry queries *)

\* the point lies strictly inside the bound of platform k inflated by the
\* player radius on every axis: closer to the centre than half the size
\* plus the radius, on every axis
StrictlyInside(pt, k) ==
    LET c == platforms[k].position
        h == platforms[k].size
    IN  /\ 2 * Abs(pt.x - c.x) < h.x + 2 * playerRadius
        /\ 2 * Abs(pt.y - c.y) < h.y + 2 * playerRadius
        /\ 2 * Abs(pt.z - c.z) < h.z + 2 * playerRadius

\* C22: isCollidingPlatform(point) is true for every point strictly inside
\* the expanded bound of at least one platform and false for every other
\* point: strictly outside all expanded bounds, or on a face of one and
\* inside no other.
C22_CollidingIffStrictlyInside ==
    probe.query = "point" =>
        (probe.colliding <=> \E k \in 1..Len(platforms) : StrictlyInside(probe.a, k))

\* a point exactly on the top face of the cube's expanded bound, clear of
\* the floor's: not colliding
C22_Witness ==
    /\ probe.query = "point"
    /\ probe.a = Vec(0, 300, 1000)
    /\ ~probe.colliding

\* the point's horizontal coordinates lie inside the horizontal bounds of
\* platform k inflated by the player radius
OverExpanded(pt, k) ==
    LET c == platforms[k].position
        h == platforms[k].size
    IN  /\ 2 * Abs(pt.x - c.x) < h.x + 2 * playerRadius
        /\ 2 * Abs(pt.z - c.z) < h.z + 2 * playerRadius

\* the height at which the player's centre rests on platform k
RestHeight(k) ==
    platforms[k].position.y + Quot(platforms[k].size.y, 2) + playerRadius

\* C23: for every platform, a point at height exactly topY + playerRadius
\* whose horizontal coordinates lie inside that platform's expanded
\* horizontal bounds is reported grounded by isOnPlatform with rest height
\* topY + playerRadius, and is not reported as colliding with that platform.
C23_RestIsGroundedNotColliding ==
    \A k \in 1..Len(platforms) :
        (probe.query = "point" /\ probe.a.y = RestHeight(k) /\ OverExpanded(probe.a, k))
            => /\ probe.platformY = RestHeight(k)
               /\ ~CollidingPlatformK(probe.a, k)

\* a point resting on the cube, one centimetre inside the edge of the
\* cube's expanded bound, is grounded at the cube's rest height
C23_Witness ==
    /\ probe.query = "point"
    /\ probe.a = Vec(149, 300, 1149)
    /\ probe.platformY = 300
    /\ ~isCollidingPlatform(probe.a)

\* the bounds of the thin box inflated by the projectile radius, on one axis
SlabMin(c, h) == c - Quot(h, 2) - projectileRadius

SlabMax(c, h) == c + Quot(h, 2) + projectileRadius

\* both ends of the segment lie inside the slab
InSlab(s, e, c, h) ==
    /\ SlabMin(c, h) <= s /\ s <= SlabMax(c, h)
    /\ SlabMin(c, h) <= e /\ e <= SlabMax(c, h)

\* the ends of the segment lie outside the slab, on opposite sides
AcrossSlab(s, e, c, h) ==
    \/ s < SlabMin(c, h) /\ e > SlabMax(c, h)
    \/ e < SlabMin(c, h) /\ s > SlabMax(c, h)

\* the ends of the segment lie outside the slab, on the same side
MissesSlab(s, e, c, h) ==
    \/ s < SlabMin(c, h) /\ e < SlabMin(c, h)
    \/ s > SlabMax(c, h) /\ e > SlabMax(c, h)

\* the segment crosses the expanded thin box from one side to the opposite
\* side along one axis, staying inside its slabs on the other two axes
PassesThrough(s, e) ==
    LET c == ThinBox.position
        h == ThinBox.size
    IN  \/ AcrossSlab(s.x, e.x, c.x, h.x) /\ InSlab(s.y, e.y, c.y, h.y) /\ InSlab(s.z, e.z, c.z, h.z)
        \/ AcrossSlab(s.y, e.y, c.y, h.y) /\ InSlab(s.x, e.x, c.x, h.x) /\ InSlab(s.z, e.z, c.z, h.z)
        \/ AcrossSlab(s.z, e.z, c.z, h.z) /\ InSlab(s.x, e.x, c.x, h.x) /\ InSlab(s.y, e.y, c.y, h.y)

\* the whole segment lies to one side of the expanded thin box on some axis
MissesBox(s, e) ==
    LET c == ThinBox.position
        h == ThinBox.size
    IN  \/ MissesSlab(s.x, e.x, c.x, h.x)
        \/ MissesSlab(s.y, e.y, c.y, h.y)
        \/ MissesSlab(s.z, e.z, c.z, h.z)

\* C24: SweptSphereVsAABB reports a collision for every segment that passes
\* entirely through the box, neither end inside the expanded box, and
\* reports no collision when the segment misses the expanded box on some
\* axis slab.
C24_SweptCatchesTunnelling ==
    probe.query = "segment" =>
        /\ PassesThrough(probe.a, probe.b) => probe.hit
        /\ MissesBox(probe.a, probe.b) => ~probe.hit

\* the segment from x = -10 to x = +10 through the box of half-width 0.1 is
\* reported, in the direction of decreasing x
C24_Witness ==
    /\ probe.query = "segment"
    /\ probe.a = Vec(1000, 0, 0)
    /\ probe.b = Vec(-1000, 0, 0)
    /\ probe.hit

-----------------------------------------------------------------------------
(* Rest and speed *)

\* the player stands on the floor at rest height, not moving vertically
AtRestOnFloor(p) ==
    /\ p.position.y = RestHeight(1)
    /\ OverExpanded(p.position, 1)
    /\ p.velocityY = 0

\* no movement, jump, run or crouch input
Idle(i) == ~i.W /\ ~i.S /\ ~i.A /\ ~i.D /\ ~i.space /\ ~i.shift /\ ~i.c

\* C21: rest is a fixed point.  With the player on the floor at height
\* exactly floor-top + radius and vertical velocity 0, one active frame with
\* no movement, jump, run or crouch input leaves the position unchanged and
\* the vertical velocity 0, for every dt.
C21_RestIsFixedPoint ==
    [][(ActiveStep /\ AtRestOnFloor(player) /\ Idle(in'))
          => /\ player'.position = player.position
             /\ player'.velocityY = 0]_vars

\* an idle active frame of 2 s found the player at rest and left it there
C21_Witness ==
    /\ frame > 0 /\ player.health > 0
    /\ Idle(in) /\ in.dt = 20
    /\ AtRestOnFloor(before)
    /\ player.position = before.position
    /\ player.velocityY = 0

\* C25: airborne speed is frozen.  On every active frame on which the
\* player is detected not grounded, speed is set to the airborne snapshot,
\* which is the speed selected on the most recent grounded frame (a grounded
\* frame stores its selection in the snapshot, an airborne frame and a
\* game-over call leave the snapshot alone); over consecutive airborne
\* frames the speed does not change, whatever the inputs.
C25_AirborneSpeedFrozen ==
    [][/\ (ActiveStep /\ ~player'.wasOnGround)
            => /\ player'.speed = player.airborneSpeed
               /\ player'.airborneSpeed = player.airborneSpeed
       /\ (ActiveStep /\ player'.wasOnGround)
            => player'.airborneSpeed = player'.speed
       /\ ~ActiveStep => player'.airborneSpeed = player.airborneSpeed
       /\ (ActiveStep /\ ~player.wasOnGround /\ ~player'.wasOnGround /\ frame > 0)
            => player'.speed = player.speed]_vars

\* run and crouch are held on an airborne frame that follows an airborne
\* frame: the speed is still the walk speed selected on the ground
C25_Witness ==
    /\ frame > 1 /\ player.health > 0
    /\ in.shift /\ in.c
    /\ ~before.wasOnGround /\ ~player.wasOnGround
    /\ player.speed = walkSpeed
    /\ player.speed = before.speed

\* the speed the priority slide > run > crouch > walk gives for input i on a
\* frame that player record p enters
PrioritySpeed(p, i) ==
    IF p.isSliding THEN slideSpeed
    ELSE IF i.shift /\ ~i.c /\ ~p.sprintExhausted THEN runSpeed
    ELSE IF i.c THEN crouchSpeed
    ELSE walkSpeed

\* C26: grounded speed selection follows the priority slide > run > crouch
\* > walk, on the sliding and exhaustion flags as the frame finds them; run
\* speed is never selected on a frame that starts with sprintExhausted true
\* or with crouch held.
C26_SpeedPriority ==
    [][(ActiveStep /\ player'.wasOnGround)
          => /\ player'.speed = PrioritySpeed(player, in')
             /\ (player.sprintExhausted \/ in'.c) => player'.speed # runSpeed]_vars

\* run held without crouch on a grounded frame that starts exhausted and not
\* sliding: the walk speed is selected
C26_Witness ==
    /\ frame > 0 /\ player.health > 0
    /\ before.sprintExhausted /\ ~before.isSliding
    /\ in.shift /\ ~in.c
    /\ player.wasOnGround
    /\ player.speed = walkSpeed

-----------------------------------------------------------------------------
(* Spawning *)

\* C27: in every reachable state the number of live enemies is at most
\* enemyMaxCount (10), and an active frame that starts with that many enemies
\* creates none: the projectile pass finds as many enemies as the frame did.
C27_EnemyCap ==
    /\ [](Len(world.enemies) <= enemyMaxCount)
    /\ [][(ActiveStep /\ Len(world.enemies) >= enemyMaxCount)
              => Len(pass'.enemies) = Len(world.enemies)]_vars

\* the eleventh frame of 4 s: every earlier frame has spawned an enemy, this
\* one has made its spawn attempt (the timer is back at 0) with ten enemies
\* alive, and there are still ten
C27_Witness ==
    /\ frame = 11 /\ ~isGameOver
    /\ in.dt >= enemySpawnInterval
    /\ world.enemySpawnTimer = 0
    /\ Len(pass.enemies) = enemyMaxCount
    /\ Len(world.enemies) = enemyMaxCount

\* the number of enemies the frame's spawn step has created
Created == Len(pass'.enemies) - Len(world.enemies)

\* C28: on an active frame where the accumulated spawn timer reaches
\* enemySpawnInterval (2.0 s) one spawn is attempted and the timer is reset
\* to zero whether or not an enemy was created; otherwise the timer keeps
\* the accumulated time and nothing is created; at most one enemy is
\* created per frame however large dt is, and at the end of every active
\* frame the spawn timer is below the interval.
C28_SpawnTimer ==
    [][ActiveStep
          => /\ (world.enemySpawnTimer + in'.dt >= enemySpawnInterval)
                    => /\ world'.enemySpawnTimer = 0
                       /\ Created = IF Len(world.enemies) < enemyMaxCount THEN 1 ELSE 0
             /\ (world.enemySpawnTimer + in'.dt < enemySpawnInterval)
                    => /\ world'.enemySpawnTimer = world.enemySpawnTimer + in'.dt
                       /\ Created = 0
             /\ world'.enemySpawnTimer < enemySpawnInterval]_vars

\* a frame of two intervals has made one spawn attempt at the cap: no enemy
\* was created and the timer is reset
C28_Witness ==
    /\ frame = 11 /\ ~isGameOver
    /\ in.dt >= 2 * enemySpawnInterval
    /\ Len(pass.enemies) = enemyMaxCount
    /\ world.enemySpawnTimer = 0

-----------------------------------------------------------------------------
(* Order of the frame *)

\* the frame state the enemy loop would start from if it ran on the enemies
\* as the projectile pass leaves them, the dead ones included
BeforeCompaction ==
    [player |-> [player' EXCEPT !.health = player.health],
     world  |-> [world' EXCEPT !.enemies = pass'.enemies]]

\* C29: within one active frame enemy AI runs after the projectile pass and
\* before the compaction of dead projectiles and enemies, so every enemy
\* that is in the sequence when the projectile pass ends takes its attack
\* step in that frame: the player's health at the end of the frame is what
\* the enemy loop makes of it on the uncompacted sequence.
C29_AIBeforeCompaction ==
    [][ActiveStep
          => player'.health = EnemyAI(BeforeCompaction, in'.dt).player.health]_vars

\* the frame state the enemy loop starts from: the enemies the projectile
\* pass has left alive
AfterCompaction ==
    [player |-> [player' EXCEPT !.health = player.health],
     world  |-> [world' EXCEPT !.enemies =
                    SelectSeq(pass'.enemies, LAMBDA e : e.health > 0)]]

\* C29 (amended): within one active frame enemy AI runs after the projectile
\* pass and after the compaction of dead projectiles and enemies, and the
\* game-over flag is updated last; so exactly the enemies that survive the
\* projectile pass take their pursuit/attack step in that frame, and an
\* enemy killed in the frame takes none.
C29_AIAfterCompaction ==
    [][ActiveStep
          => /\ player'.health = EnemyAI(AfterCompaction, in'.dt).player.health
             /\ world'.enemies = EnemyAI(AfterCompaction, in'.dt).world.enemies
             /\ isGameOver' = (player'.health <= 0)]_vars

\* an enemy killed by the projectile pass of the last frame would have
\* reached and damaged the player in its step; the player's health is what
\* the frame found
C29_Witness ==
    /\ frame > 0 /\ ~isGameOver /\ ~in.space
    /\ \E j \in 1..Len(pass.enemies) : pass.enemies[j].health <= 0
    /\ player.health = before.health
    /\ EnemyAI([player |-> [player EXCEPT !.health = before.health],
                world  |-> [world EXCEPT !.enemies = pass.enemies]],
               in.dt).player.health < before.health

-----------------------------------------------------------------------------
(* Enemy pursuit *)

\* the sphere of half the enemy's horizontal extent at pos overlaps
\* platform k
Overlaps(pos, k) ==
    SphereVsAABB(pos, enemySize.x \div 2, platforms[k].position, platforms[k].size)

\* the square of the horizontal distance from pos to the player
HorizontalDistSq(pos, p) ==
    (p.position.x - pos.x) * (p.position.x - pos.x)
        + (p.position.z - pos.z) * (p.position.z - pos.z)

\* pos stepped towards the player by enemySpeed * dt, horizontally
Stepped(pos, p, dt) ==
    LET dist == ISqrt(HorizontalDistSq(pos, p))
    IN  Vec(pos.x + Quot((p.position.x - pos.x) * enemySpeed * dt, dist),
            pos.y,
            pos.z + Quot((p.position.z - pos.z) * enemySpeed * dt, dist))

\* the pursuit step from position pos0 to position pos1, the player at p
PursuitStep(pos0, pos1, p, dt) ==
    /\ pos1.y = pos0.y
    /\ pos1 # pos0
          => /\ HorizontalDistSq(pos0, p) > distEpsilon * distEpsilon
             /\ \A k \in 2..Len(platforms) : ~Overlaps(pos1, k)
    /\ HorizontalDistSq(pos0, p) <= distEpsilon * distEpsilon => pos1 = pos0
    /\ (/\ HorizontalDistSq(pos0, p) > distEpsilon * distEpsilon
        /\ \A k \in 2..Len(platforms) : ~Overlaps(Stepped(pos0, p, dt), k))
          => pos1 = Stepped(pos0, p, dt)

\* C30: a pursuit step changes only the enemy's horizontal coordinates, is
\* committed only if the stepped position does not overlap (sphere of half
\* the enemy's horizontal extent) any platform other than the floor, is
\* skipped when the horizontal distance to the player is at most 0.01, and
\* is never blocked by the floor: a step clear of the other platforms is
\* committed although the enemy overlaps the floor.
C30_PursuitBlockedByNonFloor ==
    [][(ActiveStep /\ Len(world'.enemies) = Len(pass'.enemies))
          => \A j \in 1..Len(world'.enemies) :
                 PursuitStep(pass'.enemies[j].position, world'.enemies[j].position,
                             player', in'.dt)]_vars

\* in the last frame one enemy was held behind the cube, one stood on the
\* player and stayed, and one stepped out of the cube's footprint onto the
\* player while touching the floor
C30_Witness ==
    /\ frame > 0 /\ before.health > 0 /\ ~in.space
    /\ Len(world.enemies) = Len(pass.enemies)
    /\ \E j \in 1..Len(world.enemies) :
           /\ pass.enemies[j].position.z = 2000
           /\ world.enemies[j].position = pass.enemies[j].position
           /\ Overlaps(Stepped(pass.enemies[j].position, player, in.dt), 2)
    /\ \E j \in 1..Len(world.enemies) :
           /\ HorizontalDistSq(pass.enemies[j].position, player) = 0
           /\ world.enemies[j].position = pass.enemies[j].position
    /\ \E j \in 1..Len(world.enemies) :
           /\ pass.enemies[j].position.z = 1000
           /\ world.enemies[j].position.z = 0
           /\ Overlaps(world.enemies[j].position, 1)

-----------------------------------------------------------------------------
(* Horizontal movement *)

\* the X and Z components of the displacement of the probed tryMove call
MoveDx == Quot(probe.dir.x * probe.scale, UnitDir)

MoveDz == Quot(probe.dir.z * probe.scale, UnitDir)

\* the probed tryMove call's full candidate, X-only and Z-only positions,
\* all from the position the call started with
FullCandidate == [probe.a EXCEPT !.x = @ + MoveDx, !.z = @ + MoveDz]

OnlyX == [probe.a EXCEPT !.x = @ + MoveDx]

OnlyZ == [probe.a EXCEPT !.z = @ + MoveDz]

\* C31 as stated: when the full candidate collides, the X-only displacement
\* is accepted iff the position displaced only in X is collision-free, and
\* the Z-only displacement is accepted iff the position displaced only in Z
\* from the same pre-move position is collision-free, whatever X did.
C31_AxesIndependent ==
    (probe.query = "move" /\ isCollidingPlatform(FullCandidate))
        => /\ probe.b.x = IF ~isCollidingPlatform(OnlyX) THEN OnlyX.x ELSE probe.a.x
           /\ probe.b.z = IF ~isCollidingPlatform(OnlyZ) THEN OnlyZ.z ELSE probe.a.z

\* C31 (amended): when the full candidate collides, the X-only displacement
\* is accepted iff the position displaced only in X from the pre-move
\* position is collision-free; the Z-only displacement is tried from the
\* position the X decision leaves, so it is accepted iff X was rejected and
\* the position displaced only in Z is collision-free: accepting X rules
\* out Z.
C31_AxesInTurn ==
    (probe.query = "move" /\ isCollidingPlatform(FullCandidate))
        => probe.b = IF ~isCollidingPlatform(OnlyX) THEN OnlyX
                     ELSE IF ~isCollidingPlatform(OnlyZ) THEN OnlyZ
                     ELSE probe.a

\* a step into the corner of the cube's bound from outside it on both axes:
\* each axis alone is collision-free, and only X is accepted
C31_Witness ==
    /\ probe.query = "move"
    /\ MoveDx # 0 /\ MoveDz # 0
    /\ isCollidingPlatform(FullCandidate)
    /\ ~isCollidingPlatform(OnlyX)
    /\ ~isCollidingPlatform(OnlyZ)
    /\ probe.b = OnlyX

\* C33: each tryMove call leaves the height unchanged and ends either at
\* the unchanged running position or at a position that is not colliding;
\* so from a non-colliding position the four directional inputs resolve to
\* a non-colliding position at the same height.
C33_NeverIntoGeometry ==
    /\ probe.query = "move"
          => /\ probe.b.y = probe.a.y
             /\ probe.b = probe.a \/ ~isCollidingPlatform(probe.b)
    /\ probe.query = "movement"
          => /\ probe.b.y = probe.a.y
             /\ ~isCollidingPlatform(probe.a) => ~isCollidingPlatform(probe.b)

\* forward and right held beside the corner of the cube's bound: the first
\* input slides along X, and the resolved position is not colliding
C33_Witness ==
    /\ probe.query = "movement"
    /\ probe.keys.W /\ probe.keys.D
    /\ probe.a = Vec(-160, 100, 840)
    /\ probe.dir = Vec(3, 0, 4)
    /\ probe.b # probe.a
    /\ ~isCollidingPlatform(probe.b)

\* C40: if SphereVsAABB reports a hit for the sphere at the segment's start
\* point or at its end point, SweptSphereVsAABB reports a hit for the
\* segment, the zero-length segment included.
C40_SweptCoversEnds ==
    (/\ probe.query = "segment"
     /\ \/ SphereVsAABB(probe.a, projectileRadius, ThinBox.position, ThinBox.size)
        \/ SphereVsAABB(probe.b, projectileRadius, ThinBox.position, ThinBox.size))
        => probe.hit

\* a zero-length segment at a point where the sphere touches a face of the
\* box is reported
C40_Witness ==
    /\ probe.query = "segment"
    /\ probe.a = Vec(-11, 0, 0)
    /\ probe.b = probe.a
    /\ SphereVsAABB(probe.a, projectileRadius, ThinBox.position, ThinBox.size)
    /\ probe.hit

-----------------------------------------------------------------------------
(* The floor *)

\* C32: with the player horizontally over the floor platform, the player's
\* height is never below the floor's top surface: the player cannot fall
\* through the floor.
C32_NeverBelowFloor ==
    OverExpanded(player.position, 1)
        => player.position.y >= GetPlatformTopY(platforms[1])

-----------------------------------------------------------------------------
(* Game over and health *)

\* C34: at every frame boundary isGameOver is true if and only if player
\* health is 0, and the flag returns to false only through a restart, which
\* also restores health to 100.
C34_GameOverIffNoHealth ==
    /\ [](isGameOver <=> player.health = 0)
    /\ [][(isGameOver /\ ~isGameOver')
              => RestartStep /\ player'.health = playerHealth]_vars

\* the last call found the player dead and restart pressed: the flag is
\* false and health is 100
C34_Witness ==
    /\ frame > 0 /\ in.space
    /\ before.health = 0
    /\ ~isGameOver
    /\ player.health = playerHealth

\* C35: in every reachable state shotsHit <= shotsFired, so accuracy is at
\* most 1 and finalScore at most twice score, and 4 * enemiesDefeated <=
\* shotsHit.
C35_CounterConsistency ==
    /\ player.shotsHit <= player.shotsFired
    /\ Accuracy(player)[1] <= Accuracy(player)[2]
    /\ FinalScore(player) <= 2 * Score(player)
    /\ 4 * player.enemiesDefeated <= player.shotsHit

\* an enemy has been defeated, by at least four hits of as many shots
C35_Witness ==
    /\ player.enemiesDefeated = 1
    /\ player.shotsHit >= 4
    /\ player.shotsFired >= player.shotsHit

-----------------------------------------------------------------------------
(* Enemies and platforms *)

\* C36: no live enemy overlaps a non-floor platform: for every enemy in the
\* live sequence at any frame boundary EnemyCollidesPlatform at the enemy's
\* position is false.
C36_NoEnemyInPlatform ==
    \A j \in 1..Len(world.enemies) :
        ~EnemyCollidesPlatform(world.enemies[j].position, enemySize.x \div 2)

-----------------------------------------------------------------------------
(* Slide and exhaustion *)

\* C37: at every frame boundary isSliding implies slideTimer > 0 (and at
\* most slideDuration), and every active frame entered sliding takes its dt
\* off the timer and ends the slide when the timer is used up, whether or
\* not crouch or run is held and the player is on the ground: a slide ends
\* after at most slideDuration of accumulated frame time.
C37_SlideBoundedByTimer ==
    /\ [](player.isSliding
             => player.slideTimer > 0 /\ player.slideTimer <= slideDuration)
    /\ [][(ActiveStep /\ player.isSliding)
              => /\ player'.slideTimer = player.slideTimer - in'.dt
                 /\ player'.isSliding <=> player'.slideTimer > 0]_vars

\* a slide goes on in the air with crouch and run released, its timer run
\* down by the frame's dt
C37_Witness ==
    /\ frame > 0 /\ player.health > 0 /\ ~in.space
    /\ before.isSliding /\ player.isSliding
    /\ ~player.wasOnGround
    /\ ~in.c /\ ~in.shift /\ in.dt > 0
    /\ player.slideTimer = before.slideTimer - in.dt

\* C38 as stated: a slide never starts on a frame that begins with
\* sprintExhausted true, so on such a frame the grounded speed selected is
\* never above walk speed.
C38_ExhaustionGatesSliding ==
    [][player.sprintExhausted
          => /\ ~SlideStartStep
             /\ (ActiveStep /\ player'.wasOnGround)
                    => player'.speed <= walkSpeed]_vars

\* C38 (amended): sprint exhaustion does not gate sliding; on a grounded
\* frame that begins with sprintExhausted true the speed selected is never
\* run speed, and it is above walk speed only if the frame begins sliding,
\* when it is slide speed.
C38_ExhaustionGatesRunOnly ==
    [][(ActiveStep /\ player.sprintExhausted /\ player'.wasOnGround)
          => /\ player'.speed # runSpeed
             /\ player'.speed > walkSpeed
                    => player.isSliding /\ player'.speed = slideSpeed]_vars

\* a slide has started on a frame that began exhausted
C38_Witness ==
    /\ frame > 0 /\ player.health > 0 /\ ~in.space
    /\ before.sprintExhausted /\ ~before.isSliding
    /\ in.shift /\ in.c
    /\ player.isSliding
    /\ player.slideTimer = slideDuration - in.dt

-----------------------------------------------------------------------------
(* Projectile lifetime *)

\* the square of the distance from the player, who has not moved since the
\* shot, to the projectile
DistSqFromPlayer(proj) ==
    (proj.position.x - player.position.x) * (proj.position.x - player.position.x)
        + (proj.position.y - player.position.y) * (proj.position.y - player.position.y)
        + (proj.position.z - player.position.z) * (proj.position.z - player.position.z)

\* the distance from the player at which a projectile is when the frame
\* time accumulated since its creation equals projectileLifetime
ReachOfLifetime == spawnOffset + projectileSpeed * projectileLifetime

\* C39: a projectile is absent from the live sequence by the end of the
\* first active frame at which the frame time accumulated since its
\* creation reaches projectileLifetime (2.0 s): with the player standing
\* where the shot was fired, no live projectile has flown for 2.0 s or
\* more, and every live projectile has lifetime left.
C39_ProjectilesExpire ==
    \A k \in 1..Len(world.projectiles) :
        /\ world.projectiles[k].lifetime > 0
        /\ DistSqFromPlayer(world.projectiles[k]) < ReachOfLifetime * ReachOfLifetime

\* the last projectile pass carried a projectile past 2.0 s of flight; it
\* hit nothing (its lifetime ran below 0) and it is gone
C39_Witness ==
    /\ frame > 0 /\ ~isGameOver /\ ~in.space
    /\ Len(pass.projectiles) = 1
    /\ pass.projectiles[1].lifetime < 0
    /\ DistSqFromPlayer(pass.projectiles[1]) >= ReachOfLifetime * ReachOfLifetime
    /\ world.projectiles = <<>>

====
